---------------------------- MODULE Spec2Model ----------------------------
(***************************************************************************)
(* PALADIN: evidence graphs (egl/schema.py, egl/compiler.py), the verifier *)
(* (verifier/*.py) and the runner (model/runner.py, model/planner.py).     *)
(*                                                                         *)
(* Conventions of the model                                                *)
(*  - a Python str that the code inspects (text, span, hash, query ...) is *)
(*    a sequence of one-character strings: "a b" is <<"a", " ", "b">>;     *)
(*  - Python None is the value None below;                                 *)
(*  - node ids and type tags, which the code only compares and sorts, are  *)
(*    TLA+ strings; StrOrd gives their place in Python's string order;     *)
(*  - a call that can raise returns a record with a field raised;          *)
(*  - every position of graph.edges holds an Edge object of its own, as    *)
(*    the compiler and the planner build them.                             *)
(***************************************************************************)
EXTENDS Integers, Sequences, FiniteSets, TLC

VARIABLES
    graph,      \* the EvidenceGraph handed to the checkers
    raw,        \* the raw record handed to compile_graph
    query,      \* answer_and_proof: the question
    docs,       \* answer_and_proof: what the retriever returned
    args,       \* the arguments of a direct call of a function on plain values
    pc,         \* which call has returned, or where the call in progress is
    ret,        \* what it returned
    frame       \* the local variables of a call in progress

vars == <<graph, raw, query, docs, args, pc, ret, frame>>

-----------------------------------------------------------------------------
(* Bounds *)

\* longest node list of a directly built graph
MaxNodes == 3
\* longest edge list of a directly built graph
MaxEdges == 2
\* longest nodes list and longest edges list of a raw record
MaxRawNodes == 3
MaxRawEdges == 2

\* get_support_level called on its own: at most so many words in the premise
\* and in the hypothesis
MaxPremiseWords == 2
MaxHypothesisWords == 3

\* check_numeric_calc called on its own: the number literals are 0..MaxNum
MaxNum == 3

-----------------------------------------------------------------------------
(* Python values *)

None == <<"None">>

\* `x or ""`
OrEmpty(x) == IF x = None THEN <<>> ELSE x

RECURSIVE SeqToSet(_)
SeqToSet(s) == IF s = <<>> THEN {} ELSE {Head(s)} \cup SeqToSet(Tail(s))

\* str.lower() on the characters of the model's alphabet
LowerChar(c) ==
    CASE c = "A" -> "a"
      [] c = "B" -> "b"
      [] c = "I" -> "i"
      [] c = "N" -> "n"
      [] OTHER -> c

Lower(s) == [i \in 1..Len(s) |-> LowerChar(s[i])]

IsSpace(c) == c \in {" ", "\n", "\t"}

\* str.split() without arguments: the maximal runs of non-whitespace
RECURSIVE SplitFrom(_, _, _, _)
SplitFrom(s, i, cur, acc) ==
    IF i > Len(s)
    THEN IF cur = <<>> THEN acc ELSE Append(acc, cur)
    ELSE IF IsSpace(s[i])
         THEN SplitFrom(s, i + 1, <<>>, IF cur = <<>> THEN acc ELSE Append(acc, cur))
         ELSE SplitFrom(s, i + 1, Append(cur, s[i]), acc)

Split(s) == SplitFrom(s, 1, <<>>, <<>>)

\* `sub in s` for two strings
IsSubstring(sub, s) ==
    \E i \in 0..(Len(s) - Len(sub)) : SubSeq(s, i + 1, i + Len(sub)) = sub

\* sep.join(words)
RECURSIVE Join(_, _)
Join(sep, words) ==
    IF words = <<>> THEN <<>>
    ELSE IF Len(words) = 1 THEN words[1]
    ELSE words[1] \o sep \o Join(sep, Tail(words))

-----------------------------------------------------------------------------
(* verifier/truthlens_adapter.py *)

Tokenize(text) == LET ws == Split(text) IN [i \in 1..Len(ws) |-> Lower(ws[i])]

negations == {<<"n", "o", "t">>, <<"n", "o">>, <<"n", "e", "v", "e", "r">>}

\* the number of hypothesis tokens found among the premise tokens
Matches(h_tokens, p_tokens) ==
    Cardinality({i \in 1..Len(h_tokens) : h_tokens[i] \in SeqToSet(p_tokens)})

\* faulty variant: the support ratio is looked at before the negations
GetSupportLevelRatioFirst(premise, hypothesis) ==
    LET p_tokens == Tokenize(premise)
        h_tokens == Tokenize(hypothesis)
    IN  IF h_tokens = <<>> THEN "unverifiable"
        ELSE IF 2 * Matches(h_tokens, p_tokens) >= Len(h_tokens) THEN "supported"
        ELSE IF \E neg \in negations : \E i \in 1..Len(h_tokens) :
                    IsSubstring(neg \o <<" ">> \o h_tokens[i], Lower(premise))
        THEN "contradicted"
        ELSE "unverifiable"

\* faulty variant: a ratio of exactly 0.5 is not enough
GetSupportLevelAboveHalf(premise, hypothesis) ==
    LET p_tokens == Tokenize(premise)
        h_tokens == Tokenize(hypothesis)
    IN  IF h_tokens = <<>> THEN "unverifiable"
        ELSE IF \E neg \in negations : \E i \in 1..Len(h_tokens) :
                    IsSubstring(neg \o <<" ">> \o h_tokens[i], Lower(premise))
        THEN "contradicted"
        ELSE IF 2 * Matches(h_tokens, p_tokens) > Len(h_tokens) THEN "supported"
        ELSE "unverifiable"

\* faulty variant: the premise tokens are not lowercased
GetSupportLevelPremiseCase(premise, hypothesis) ==
    LET p_tokens == Split(premise)
        h_tokens == Tokenize(hypothesis)
    IN  IF h_tokens = <<>> THEN "unverifiable"
        ELSE IF \E neg \in negations : \E i \in 1..Len(h_tokens) :
                    IsSubstring(neg \o <<" ">> \o h_tokens[i], Lower(premise))
        THEN "contradicted"
        ELSE IF 2 * Matches(h_tokens, p_tokens) >= Len(h_tokens) THEN "supported"
        ELSE "unverifiable"

GetSupportLevel(premise, hypothesis) ==
    LET p_tokens == Tokenize(premise)
        h_tokens == Tokenize(hypothesis)
    IN  IF h_tokens = <<>> THEN "unverifiable"
        ELSE IF \E neg \in negations : \E i \in 1..Len(h_tokens) :
                    IsSubstring(neg \o <<" ">> \o h_tokens[i], Lower(premise))
        THEN "contradicted"
        \* ratio >= 0.5, ratio = matches / len(h_tokens)
        ELSE IF 2 * Matches(h_tokens, p_tokens) >= Len(h_tokens) THEN "supported"
        ELSE "unverifiable"

-----------------------------------------------------------------------------
(* egl/schema.py *)

NODE_TYPES == {"claim", "evidence", "calc", "entailment"}
EDGE_TYPES == {"supports", "refutes", "derives", "uses-tool", "cites"}

\* the calc node's code is kept parsed; NoCode is the absent (None) code
NoCode == [k |-> "None"]

\* Node(...): the fields the call does not give default to None
Node(id, type, text, span, hash, code, result) ==
    [id |-> id, type |-> type, text |-> text, url |-> None, span |-> span,
     hash |-> hash, code |-> code, result |-> result, premise |-> None,
     hypothesis |-> None, lang |-> None]

Edge(source, target, type) == [source |-> source, target |-> target, type |-> type]

EvidenceGraph(nodes, edges) == [nodes |-> nodes, edges |-> edges]

NodeIds(g) == {g.nodes[i].id : i \in 1..Len(g.nodes)}

\* {n.id: n for n in self.nodes}: a later node replaces an earlier one of the same id
node_map(g) ==
    [id \in NodeIds(g) |->
        LET last == CHOOSE i \in 1..Len(g.nodes) :
                        /\ g.nodes[i].id = id
                        /\ \A j \in 1..Len(g.nodes) : g.nodes[j].id = id => j <= i
        IN  g.nodes[last]]

\* get_node returns None for an id that is not in node_map
HasNode(g, id) == id \in NodeIds(g)
get_node(g, id) == node_map(g)[id]

outgoing(g, node_id) == SelectSeq(g.edges, LAMBDA e : e.source = node_id)
incoming(g, node_id) == SelectSeq(g.edges, LAMBDA e : e.target = node_id)

claims(g) == SelectSeq(g.nodes, LAMBDA n : n.type = "claim")
evidence_nodes(g) == SelectSeq(g.nodes, LAMBDA n : n.type = "evidence")

\* faulty variant: a claim with any incoming edge is not final
IsFinalClaimWithoutIncoming(g, node) == Len(incoming(g, node.id)) = 0

is_final_claim(g, node) ==
    LET inc == incoming(g, node.id)
    IN  \A i \in 1..Len(inc) : inc[i].type # "derives"

final_claims(g) == SelectSeq(claims(g), LAMBDA c : is_final_claim(g, c))

\* faulty variant: starts the traversal from the claims too
SeedTypesWithClaim == {"evidence", "calc", "entailment", "claim"}

\* n.type in {"evidence", "calc", "entailment"}
SeedTypes == {"evidence", "calc", "entailment"}

\* faulty variant: follows refutes edges too
FollowedTypesWithRefutes == {"supports", "derives", "cites", "uses-tool", "refutes"}

\* faulty variant: does not follow supports edges
FollowedTypesNoSupports == {"derives", "cites", "uses-tool"}

\* edge.type in {"supports", "derives", "cites", "uses-tool"}
FollowedTypes == {"supports", "derives", "cites", "uses-tool"}

\* faulty variant: the target is pushed whether or not it was marked before
RECURSIVE VisitOutgoingAlwaysPush(_, _, _, _)
VisitOutgoingAlwaysPush(out, k, reachable, stack) ==
    IF k > Len(out)
    THEN [raised |-> FALSE, reachable |-> reachable, stack |-> stack]
    ELSE IF out[k].type \in FollowedTypes
         THEN IF out[k].target \notin DOMAIN reachable
              THEN [raised |-> TRUE, reachable |-> reachable, stack |-> stack]
              ELSE VisitOutgoingAlwaysPush(out, k + 1,
                       [reachable EXCEPT ![out[k].target] = TRUE],
                       Append(stack, out[k].target))
         ELSE VisitOutgoingAlwaysPush(out, k + 1, reachable, stack)

\* `for edge in self.outgoing(current)`: reachable[edge.target] raises KeyError
\* when the target is not a node id
RECURSIVE VisitOutgoing(_, _, _, _)
VisitOutgoing(out, k, reachable, stack) ==
    IF k > Len(out)
    THEN [raised |-> FALSE, reachable |-> reachable, stack |-> stack]
    ELSE IF out[k].type \in FollowedTypes
         THEN IF out[k].target \notin DOMAIN reachable
              THEN [raised |-> TRUE, reachable |-> reachable, stack |-> stack]
              ELSE IF ~reachable[out[k].target]
                   THEN VisitOutgoing(out, k + 1,
                            [reachable EXCEPT ![out[k].target] = TRUE],
                            Append(stack, out[k].target))
                   ELSE VisitOutgoing(out, k + 1, reachable, stack)
         ELSE VisitOutgoing(out, k + 1, reachable, stack)

\* one turn of `while stack:` -- current = stack.pop(), then the inner loop
TraverseTurn(g, reachable, stack) ==
    VisitOutgoing(outgoing(g, stack[Len(stack)]), 1, reachable,
                  SubSeq(stack, 1, Len(stack) - 1))

\* `while stack: current = stack.pop() ...`
RECURSIVE Traverse(_, _, _)
Traverse(g, reachable, stack) ==
    IF stack = <<>>
    THEN [raised |-> FALSE, reachable |-> reachable]
    ELSE LET current == stack[Len(stack)]
             r == TraverseTurn(g, reachable, stack)
         IN  IF r.raised
             THEN [raised |-> TRUE, reachable |-> r.reachable]
             ELSE Traverse(g, r.reachable, r.stack)

reachable_from_evidence(g) ==
    LET seeds == SelectSeq(g.nodes, LAMBDA n : n.type \in SeedTypes)
        stack == [i \in 1..Len(seeds) |-> seeds[i].id]
        reachable == [id \in NodeIds(g) |-> id \in SeqToSet(stack)]
    IN  Traverse(g, reachable, stack)

validate_connectivity(g) ==
    LET r == reachable_from_evidence(g)
        fc == final_claims(g)
    IN  IF r.raised
        THEN [raised |-> TRUE, value |-> FALSE]
        ELSE [raised |-> FALSE,
              value |-> \A i \in 1..Len(fc) : r.reachable[fc[i].id]]

\* validate_connectivity returned True
Connected(g) == LET c == validate_connectivity(g) IN ~c.raised /\ c.value

-----------------------------------------------------------------------------
(* verifier/minimality.py *)

\* faulty variant: removes every edge equal to the one at position i
GraphWithoutEqualEdges(g, i) ==
    EvidenceGraph(g.nodes, SelectSeq(g.edges, LAMBDA e : e # g.edges[i]))

\* [e for e in graph.edges if e is not edge_to_remove], the edge being the
\* object at position i of graph.edges
_graph_without_edge(g, i) ==
    EvidenceGraph(g.nodes,
        SubSeq(g.edges, 1, i - 1) \o SubSeq(g.edges, i + 1, Len(g.edges)))

\* faulty variant: graph.edges.remove(edge_to_remove) on the graph handed in
GraphEdgeRemovedInPlace(g, i) ==
    EvidenceGraph(g.nodes,
        SubSeq(g.edges, 1, i - 1) \o SubSeq(g.edges, i + 1, Len(g.edges)))

\* the graph handed to _graph_without_edge, as the call leaves it: new_edges
\* is a list of its own and list(graph.nodes) a copy; nothing is assigned to
\* graph.nodes or graph.edges and no method of theirs that changes them is called
_graph_without_edge_leaves(g, i) == g

RECURSIVE SupportsValidFrom(_, _)
SupportsValidFrom(g, k) ==
    IF k > Len(g.edges) THEN TRUE
    ELSE LET edge == g.edges[k] IN
         IF edge.type # "supports" THEN SupportsValidFrom(g, k + 1)
         ELSE IF ~HasNode(g, edge.source) \/ ~HasNode(g, edge.target) THEN FALSE
         ELSE LET src == get_node(g, edge.source)
                  tgt == get_node(g, edge.target)
              IN  IF src.type # "evidence" \/ tgt.type # "claim"
                  THEN SupportsValidFrom(g, k + 1)
                  ELSE IF GetSupportLevel(OrEmpty(src.span), OrEmpty(tgt.text)) # "supported"
                       THEN FALSE
                       ELSE SupportsValidFrom(g, k + 1)

_supports_valid(g) == SupportsValidFrom(g, 1)

\* f"{edge.source}->{edge.target}"
Descriptor(edge) == <<edge.source, "->", edge.target>>

MinRaised == [raised |-> TRUE, is_minimal |-> FALSE, removable |-> <<>>]

\* faulty variant: only the supports edges are tried
RECURSIVE MinimalityLoopSupportsOnly(_, _, _)
MinimalityLoopSupportsOnly(g, i, removable) ==
    IF i > Len(g.edges)
    THEN [raised |-> FALSE, is_minimal |-> Len(removable) = 0, removable |-> removable]
    ELSE LET temp_graph == _graph_without_edge(g, i)
             conn == validate_connectivity(temp_graph)
         IN  IF g.edges[i].type # "supports"
             THEN MinimalityLoopSupportsOnly(g, i + 1, removable)
             ELSE IF conn.raised THEN MinRaised
             ELSE IF ~conn.value THEN MinimalityLoopSupportsOnly(g, i + 1, removable)
             ELSE IF ~_supports_valid(temp_graph)
                  THEN MinimalityLoopSupportsOnly(g, i + 1, removable)
             ELSE MinimalityLoopSupportsOnly(g, i + 1,
                      Append(removable, Descriptor(g.edges[i])))

\* `for edge in graph.edges:` from position i on
RECURSIVE MinimalityLoop(_, _, _)
MinimalityLoop(g, i, removable) ==
    IF i > Len(g.edges)
    THEN [raised |-> FALSE, is_minimal |-> Len(removable) = 0, removable |-> removable]
    ELSE LET temp_graph == _graph_without_edge(g, i)
             conn == validate_connectivity(temp_graph)
         IN  IF conn.raised THEN MinRaised
             ELSE IF ~conn.value THEN MinimalityLoop(g, i + 1, removable)
             ELSE IF ~_supports_valid(temp_graph) THEN MinimalityLoop(g, i + 1, removable)
             ELSE MinimalityLoop(g, i + 1, Append(removable, Descriptor(g.edges[i])))

\* the graph handed to check_minimality, as `for edge in graph.edges:` leaves
\* it from position i on; the loop reads the list it runs over
RECURSIVE MinimalityLoopLeaves(_, _)
MinimalityLoopLeaves(g, i) ==
    IF i > Len(g.edges) THEN g
    ELSE MinimalityLoopLeaves(_graph_without_edge_leaves(g, i), i + 1)

check_minimality_leaves(g) ==
    IF g.edges = <<>> THEN g ELSE MinimalityLoopLeaves(g, 1)

\* faulty variant: runs the loop also on a graph without edges
CheckMinimalityUnguarded(g) == MinimalityLoop(g, 1, <<>>)

\* faulty variant: takes a graph without edges for minimal
CheckMinimalityEmptyMinimal(g) ==
    IF g.edges = <<>>
    THEN [raised |-> FALSE, is_minimal |-> TRUE, removable |-> <<>>]
    ELSE MinimalityLoop(g, 1, <<>>)

check_minimality(g) ==
    IF g.edges = <<>>
    THEN [raised |-> FALSE, is_minimal |-> FALSE, removable |-> <<>>]
    ELSE MinimalityLoop(g, 1, <<>>)

-----------------------------------------------------------------------------
(* verifier/hashcheck.py *)

\* hashlib.sha256(s.encode("utf-8")).hexdigest(): the digest is kept symbolic,
\* one digest per text (SHA-256 taken as collision-free); it is never empty
\* and never a text of the model
_sha256_hex(s) == <<"sha256:">> \o s

\* faulty variant: checks every node, not only the evidence nodes
RECURSIVE SourceBindingEveryNode(_, _, _)
SourceBindingEveryNode(g, k, problems) ==
    IF k > Len(g.nodes) THEN problems
    ELSE LET node == g.nodes[k]
             span == OrEmpty(node.span)
             h == OrEmpty(node.hash)
         IN  IF span = <<>>
             THEN SourceBindingEveryNode(g, k + 1,
                      Append(problems, <<"evidence ", node.id, " missing span">>))
             ELSE IF h = <<>>
                  THEN SourceBindingEveryNode(g, k + 1,
                           Append(problems, <<"evidence ", node.id, " missing hash">>))
             ELSE IF _sha256_hex(span) # h
                  THEN SourceBindingEveryNode(g, k + 1,
                           Append(problems, <<"hash mismatch for ", node.id>>))
             ELSE SourceBindingEveryNode(g, k + 1, problems)

\* faulty variant: stops at the first problem (break for continue)
RECURSIVE SourceBindingFirstProblem(_, _, _)
SourceBindingFirstProblem(g, k, problems) ==
    IF k > Len(g.nodes) THEN problems
    ELSE LET node == g.nodes[k]
             span == OrEmpty(node.span)
             h == OrEmpty(node.hash)
         IN  IF node.type # "evidence" THEN SourceBindingFirstProblem(g, k + 1, problems)
             ELSE IF span = <<>>
                  THEN Append(problems, <<"evidence ", node.id, " missing span">>)
             ELSE IF h = <<>>
                  THEN Append(problems, <<"evidence ", node.id, " missing hash">>)
             ELSE IF _sha256_hex(span) # h
                  THEN Append(problems, <<"hash mismatch for ", node.id>>)
             ELSE SourceBindingFirstProblem(g, k + 1, problems)

\* faulty variant: the hash is looked at before the span
RECURSIVE SourceBindingHashBeforeSpan(_, _, _)
SourceBindingHashBeforeSpan(g, k, problems) ==
    IF k > Len(g.nodes) THEN problems
    ELSE LET node == g.nodes[k]
             span == OrEmpty(node.span)
             h == OrEmpty(node.hash)
         IN  IF node.type # "evidence" THEN SourceBindingHashBeforeSpan(g, k + 1, problems)
             ELSE IF h = <<>>
                  THEN SourceBindingHashBeforeSpan(g, k + 1,
                           Append(problems, <<"evidence ", node.id, " missing hash">>))
             ELSE IF span = <<>>
                  THEN SourceBindingHashBeforeSpan(g, k + 1,
                           Append(problems, <<"evidence ", node.id, " missing span">>))
             ELSE IF _sha256_hex(span) # h
                  THEN SourceBindingHashBeforeSpan(g, k + 1,
                           Append(problems, <<"hash mismatch for ", node.id>>))
             ELSE SourceBindingHashBeforeSpan(g, k + 1, problems)

\* `for node in graph.nodes:` from position k on
RECURSIVE SourceBindingFrom(_, _, _)
SourceBindingFrom(g, k, problems) ==
    IF k > Len(g.nodes) THEN problems
    ELSE LET node == g.nodes[k]
             span == OrEmpty(node.span)
             h == OrEmpty(node.hash)
         IN  IF node.type # "evidence" THEN SourceBindingFrom(g, k + 1, problems)
             ELSE IF span = <<>>
                  THEN SourceBindingFrom(g, k + 1,
                           Append(problems, <<"evidence ", node.id, " missing span">>))
             ELSE IF h = <<>>
                  THEN SourceBindingFrom(g, k + 1,
                           Append(problems, <<"evidence ", node.id, " missing hash">>))
             ELSE IF _sha256_hex(span) # h
                  THEN SourceBindingFrom(g, k + 1,
                           Append(problems, <<"hash mismatch for ", node.id>>))
             ELSE SourceBindingFrom(g, k + 1, problems)

\* the graph handed to check_source_binding, as the call leaves it: the loop
\* only reads node.type, node.span, node.hash and node.id
check_source_binding_leaves(g) == g

check_source_binding(g) ==
    LET problems == SourceBindingFrom(g, 1, <<>>)
    IN  [passed |-> Len(problems) = 0, problems |-> problems]

-----------------------------------------------------------------------------
(* verifier/numeric_time_check.py *)

(* ast.parse(code, mode="eval") is the Python library's; the model keeps a    *)
(* calc node's code as what it parses to:                                     *)
(*   [k |-> "SyntaxError"]                       the text does not parse      *)
(*   [k |-> "Constant", t |-> tag, v |-> Int, s |-> text]   a literal; t is   *)
(*       "int", "str", "bool" or "none", v the number (1/0 for True/False),   *)
(*       s the text of a str literal                                          *)
(*   [k |-> "UnaryOp", op |-> "USub" | "UAdd" | "Invert" | "Not", operand]    *)
(*   [k |-> "BinOp", op |-> "Add" | ... | "Pow", left, right]                 *)
(*   [k |-> "Name"], [k |-> "Call"]              any other construct          *)
(* The Expression node that wraps the body is allowed and only unwrapped.     *)

Const(t, v, s) == [k |-> "Constant", t |-> t, v |-> v, s |-> s]
Num(n) == Const("int", n, <<>>)
UnaryOp(op, operand) == [k |-> "UnaryOp", op |-> op, operand |-> operand]
BinOp(left, op, right) == [k |-> "BinOp", op |-> op, left |-> left, right |-> right]

\* the classes of _ALLOWED_NODES that _eval_node can be called on
_ALLOWED_NODES == {"Expression", "BinOp", "UnaryOp", "Constant"}

_OPS == {"Add", "Sub", "Mult", "Div", "FloorDiv", "Mod"}

\* a Python value: t is "int", "float", "str", "bool" or "none"; a float is
\* the fraction v / d, and 0 / d with d < 0 is the float -0.0
Value(t, v, d, s) == [raised |-> FALSE, t |-> t, v |-> v, d |-> d, s |-> s]
IntValue(n) == Value("int", n, 1, <<>>)
Raise == [raised |-> TRUE, t |-> "none", v |-> 0, d |-> 1, s |-> <<>>]

IsNumber(x) == x.t \in {"int", "bool"}

\* Python's // and %: the quotient is rounded down, the remainder has the
\* sign of the divisor
PyFloorDiv(a, b) == IF b > 0 THEN a \div b ELSE (0 - a) \div (0 - b)
PyMod(a, b) == a - b * PyFloorDiv(a, b)

\* s * n for a str
RECURSIVE Repeat(_, _)
Repeat(s, n) == IF n <= 0 THEN <<>> ELSE s \o Repeat(s, n - 1)

\* _OPS[op_type](left, right) on the values the model's expressions hand to a
\* binary operator: numbers (bool counts as 0/1), str + str, str * number and
\* number * str; every other pairing of a number, a str and None raises
\* TypeError. No expression of the model hands a float to a binary operator.
ApplyOp(op, l, r) ==
    IF IsNumber(l) /\ IsNumber(r)
    THEN CASE op = "Add" -> IntValue(l.v + r.v)
           [] op = "Sub" -> IntValue(l.v - r.v)
           [] op = "Mult" -> IntValue(l.v * r.v)
           [] op = "Div" -> IF r.v = 0 THEN Raise
                            ELSE Value("float", l.v, r.v, <<>>)
           [] op = "FloorDiv" -> IF r.v = 0 THEN Raise
                                 ELSE IntValue(PyFloorDiv(l.v, r.v))
           [] op = "Mod" -> IF r.v = 0 THEN Raise ELSE IntValue(PyMod(l.v, r.v))
    ELSE IF l.t = "str" /\ r.t = "str" /\ op = "Add"
         THEN Value("str", 0, 1, l.s \o r.s)
    ELSE IF l.t = "str" /\ IsNumber(r) /\ op = "Mult"
         THEN Value("str", 0, 1, Repeat(l.s, r.v))
    ELSE IF IsNumber(l) /\ r.t = "str" /\ op = "Mult"
         THEN Value("str", 0, 1, Repeat(r.s, l.v))
         ELSE Raise

\* -x
Negate(x) ==
    IF IsNumber(x) THEN IntValue(0 - x.v)
    ELSE IF x.t = "float"
         THEN IF x.v = 0 THEN Value("float", 0, 0 - x.d, <<>>)
              ELSE Value("float", 0 - x.v, x.d, <<>>)
    ELSE Raise

RECURSIVE _eval_node(_)
_eval_node(node) ==
    IF node.k \notin _ALLOWED_NODES THEN Raise
    ELSE IF node.k = "Constant" THEN Value(node.t, node.v, 1, node.s)
    ELSE IF node.k = "UnaryOp"
         THEN LET x == _eval_node(node.operand)
              IN  IF x.raised THEN Raise ELSE Negate(x)
    ELSE LET left == _eval_node(node.left)
             right == _eval_node(node.right)
         IN  IF left.raised THEN Raise
             ELSE IF right.raised THEN Raise
             ELSE IF node.op \notin _OPS THEN Raise
             ELSE ApplyOp(node.op, left, right)

Digit(n) == CASE n = 0 -> "0" [] n = 1 -> "1" [] n = 2 -> "2" [] n = 3 -> "3"
              [] n = 4 -> "4" [] n = 5 -> "5" [] n = 6 -> "6" [] n = 7 -> "7"
              [] n = 8 -> "8" [] n = 9 -> "9"

RECURSIVE NatToStr(_)
NatToStr(n) == IF n < 10 THEN <<Digit(n)>> ELSE NatToStr(n \div 10) \o <<Digit(n % 10)>>

IntToStr(n) == IF n < 0 THEN <<"-">> \o NatToStr(0 - n) ELSE NatToStr(n)

\* str(result). A float is printed when it is a whole number ("4.0"); the
\* model's expressions and expected results are chosen so that no other
\* float has to be printed: NoRepr equals no expected result of the model
NoRepr == <<"float">>
Str(x) ==
    CASE x.t = "int" -> IntToStr(x.v)
      [] x.t = "float" -> IF x.v = 0
                          THEN (IF x.d < 0 THEN <<"-">> ELSE <<>>) \o <<"0", ".", "0">>
                          ELSE IF x.v % (IF x.d < 0 THEN 0 - x.d ELSE x.d) = 0
                          THEN IntToStr(PyFloorDiv(x.v, x.d)) \o <<".", "0">>
                          ELSE NoRepr
      [] x.t = "str" -> x.s
      [] x.t = "bool" -> IF x.v = 1 THEN <<"T", "r", "u", "e">>
                         ELSE <<"F", "a", "l", "s", "e">>
      [] x.t = "none" -> <<"N", "o", "n", "e">>

\* every exception is caught: False
check_numeric_calc(code, expected) ==
    IF code.k = "SyntaxError" THEN FALSE
    ELSE LET result == _eval_node(code)
         IN  IF result.raised THEN FALSE ELSE Str(result) = expected

-----------------------------------------------------------------------------
(* model/runner.py: PaladinRunner._verify *)

\* faulty variant: a level for every supports edge between two nodes
RECURSIVE EntailEverySupports(_, _, _)
EntailEverySupports(g, k, entail_results) ==
    IF k > Len(g.edges) THEN entail_results
    ELSE LET edge == g.edges[k] IN
         IF /\ edge.type = "supports"
            /\ HasNode(g, edge.source)
            /\ HasNode(g, edge.target)
         THEN EntailEverySupports(g, k + 1,
                  Append(entail_results,
                         GetSupportLevel(OrEmpty(get_node(g, edge.source).span),
                                         OrEmpty(get_node(g, edge.target).text))))
         ELSE EntailEverySupports(g, k + 1, entail_results)

\* the support levels of the supports edges from an evidence node to a claim
\* node, `for edge in graph.edges:` from position k on
RECURSIVE EntailFrom(_, _, _)
EntailFrom(g, k, entail_results) ==
    IF k > Len(g.edges) THEN entail_results
    ELSE LET edge == g.edges[k] IN
         IF /\ edge.type = "supports"
            /\ HasNode(g, edge.source)
            /\ HasNode(g, edge.target)
            /\ get_node(g, edge.source).type = "evidence"
            /\ get_node(g, edge.target).type = "claim"
         THEN EntailFrom(g, k + 1,
                  Append(entail_results,
                         GetSupportLevel(OrEmpty(get_node(g, edge.source).span),
                                         OrEmpty(get_node(g, edge.target).text))))
         ELSE EntailFrom(g, k + 1, entail_results)

\* faulty variant: a calc node without code or without result is a problem
RECURSIVE NumericFromMissingFails(_, _, _)
NumericFromMissingFails(g, k, numeric_problems) ==
    IF k > Len(g.nodes) THEN numeric_problems
    ELSE LET node == g.nodes[k] IN
         IF /\ node.type = "calc"
            /\ \/ node.code = NoCode
               \/ node.result = None
               \/ ~check_numeric_calc(node.code, node.result)
         THEN NumericFromMissingFails(g, k + 1, Append(numeric_problems, node.id))
         ELSE NumericFromMissingFails(g, k + 1, numeric_problems)

\* the ids of the calc nodes whose check fails, `for node in graph.nodes:`
RECURSIVE NumericFrom(_, _, _)
NumericFrom(g, k, numeric_problems) ==
    IF k > Len(g.nodes) THEN numeric_problems
    ELSE LET node == g.nodes[k] IN
         IF /\ node.type = "calc"
            /\ node.code # NoCode
            /\ node.result # None
            /\ ~check_numeric_calc(node.code, node.result)
         THEN NumericFrom(g, k + 1, Append(numeric_problems, node.id))
         ELSE NumericFrom(g, k + 1, numeric_problems)

\* faulty variant: forgets the minimality flag
ValidWithoutMinimality(ok_hash, support_ok, is_min, numeric_ok) ==
    ok_hash /\ support_ok /\ numeric_ok

\* valid = ok_hash and support_ok and is_min and numeric_ok
Valid(ok_hash, support_ok, is_min, numeric_ok) ==
    ok_hash /\ support_ok /\ is_min /\ numeric_ok

NoDetails == [hash |-> [passed |-> FALSE, problems |-> <<>>],
              entailment |-> [passed |-> FALSE, levels |-> <<>>],
              minimality |-> [passed |-> FALSE, removable |-> <<>>],
              numeric |-> [passed |-> FALSE, problems |-> <<>>]]

\* faulty variant: returns as soon as the hash check has failed, with the one
\* section it has
VerifyShortCircuit(g) ==
    LET hash == check_source_binding(g)
        entail_results == EntailFrom(g, 1, <<>>)
        support_ok == \A i \in 1..Len(entail_results) : entail_results[i] = "supported"
        min == check_minimality(g)
        numeric_problems == NumericFrom(g, 1, <<>>)
        numeric_ok == Len(numeric_problems) = 0
    IN  IF ~hash.passed
        THEN [raised |-> FALSE, valid |-> FALSE,
              details |-> [hash |-> [passed |-> FALSE, problems |-> hash.problems]]]
        ELSE IF min.raised
        THEN [raised |-> TRUE, valid |-> FALSE, details |-> NoDetails]
        ELSE [raised |-> FALSE,
              valid |-> support_ok /\ min.is_minimal /\ numeric_ok,
              details |->
                [hash |-> [passed |-> hash.passed, problems |-> hash.problems],
                 entailment |-> [passed |-> support_ok, levels |-> entail_results],
                 minimality |-> [passed |-> min.is_minimal, removable |-> min.removable],
                 numeric |-> [passed |-> numeric_ok, problems |-> numeric_problems]]]

_verify(g) ==
    LET hash == check_source_binding(g)
        entail_results == EntailFrom(g, 1, <<>>)
        support_ok == \A i \in 1..Len(entail_results) : entail_results[i] = "supported"
        min == check_minimality(g)
        numeric_problems == NumericFrom(g, 1, <<>>)
        numeric_ok == Len(numeric_problems) = 0
    IN  IF min.raised
        THEN [raised |-> TRUE, valid |-> FALSE, details |-> NoDetails]
        ELSE [raised |-> FALSE,
              valid |-> Valid(hash.passed, support_ok, min.is_minimal, numeric_ok),
              details |->
                [hash |-> [passed |-> hash.passed, problems |-> hash.problems],
                 entailment |-> [passed |-> support_ok, levels |-> entail_results],
                 minimality |-> [passed |-> min.is_minimal, removable |-> min.removable],
                 numeric |-> [passed |-> numeric_ok, problems |-> numeric_problems]]]

\* the graph handed to _verify, as the call leaves it: the hash check, then
\* the minimality check; the two loops of _verify itself only read
_verify_leaves(g) == check_minimality_leaves(check_source_binding_leaves(g))

-----------------------------------------------------------------------------
(* egl/schema.py: validate_graph *)

\* `for edge in graph.edges:` from position k on
RECURSIVE EdgeErrorsFrom(_, _, _)
EdgeErrorsFrom(g, k, errors) ==
    IF k > Len(g.edges) THEN errors
    ELSE LET edge == g.edges[k]
             e1 == IF edge.source \notin NodeIds(g)
                   THEN Append(errors, <<"Edge source ", edge.source, " does not exist">>)
                   ELSE errors
             e2 == IF edge.target \notin NodeIds(g)
                   THEN Append(e1, <<"Edge target ", edge.target, " does not exist">>)
                   ELSE e1
         IN  EdgeErrorsFrom(g, k + 1, e2)

DuplicateError == <<"Duplicate node identifiers found">>
UnreachableError == <<"Final claims are not reachable from evidence or calc nodes">>

\* faulty variant: does not compare the number of ids with the number of nodes
NoDuplicateErrors(g) == <<>>

\* `if len(node_ids) != len(graph.nodes): errors.append(...)`
DuplicateErrors(g) ==
    IF Cardinality(NodeIds(g)) # Len(g.nodes) THEN <<DuplicateError>> ELSE <<>>

\* the KeyError of reachable_from_evidence leaves validate_graph as it is raised
validate_graph(g) ==
    LET errors == EdgeErrorsFrom(g, 1, DuplicateErrors(g))
        conn == validate_connectivity(g)
    IN  IF conn.raised THEN [raised |-> TRUE, errors |-> <<>>]
        ELSE [raised |-> FALSE,
              errors |-> IF conn.value THEN errors
                         ELSE Append(errors, UnreachableError)]

-----------------------------------------------------------------------------
(* egl/compiler.py *)

\* the place of an id or a type tag of the model in Python's order of strings
StrOrd(s) ==
    CASE s = "c1" -> 1 [] s = "c2" -> 2 [] s = "cites" -> 3 [] s = "derives" -> 4
      [] s = "e1" -> 5 [] s = "e2" -> 6 [] s = "k1" -> 7 [] s = "refutes" -> 8
      [] s = "supports" -> 9 [] s = "uses-tool" -> 10 [] s = "zz" -> 11

NodeKeys == {"id", "type", "text", "url", "span", "hash", "code", "result",
             "premise", "hypothesis", "lang"}
EdgeKeys == {"source", "target", "type"}

\* raw.get(key, [])
RawGet(r, key) == IF key \in DOMAIN r THEN r[key] ELSE <<>>

\* {k: v for k, v in nd.items() if k in {...}}
Kwargs(d, keys) == [k \in (DOMAIN d) \cap keys |-> d[k]]

Field(kw, f, default) == IF f \in DOMAIN kw THEN kw[f] ELSE default

\* Node(**node_kwargs): TypeError without id or type, ValueError for an
\* unknown type
NodeRaises(kw) == ~({"id", "type"} \subseteq DOMAIN kw) \/ kw.type \notin NODE_TYPES
NodeFromKwargs(kw) ==
    [id |-> kw.id, type |-> kw.type, text |-> Field(kw, "text", None),
     url |-> Field(kw, "url", None), span |-> Field(kw, "span", None),
     hash |-> Field(kw, "hash", None), code |-> Field(kw, "code", NoCode),
     result |-> Field(kw, "result", None), premise |-> Field(kw, "premise", None),
     hypothesis |-> Field(kw, "hypothesis", None), lang |-> Field(kw, "lang", None)]

\* Edge(**edge_kwargs)
EdgeRaises(kw) == DOMAIN kw # EdgeKeys \/ kw.type \notin EDGE_TYPES
EdgeFromKwargs(kw) == [source |-> kw.source, target |-> kw.target, type |-> kw.type]

\* key=lambda n: n.id
NodeKeyLess(a, b) == StrOrd(a.id) < StrOrd(b.id)

\* faulty variant: leaves the relation out of the key
EdgeKeyLessNoType(a, b) ==
    \/ StrOrd(a.source) < StrOrd(b.source)
    \/ a.source = b.source /\ StrOrd(a.target) < StrOrd(b.target)

\* key=lambda e: (e.source, e.target, e.type), tuples compared left to right
EdgeKeyLess(a, b) ==
    \/ StrOrd(a.source) < StrOrd(b.source)
    \/ a.source = b.source /\ StrOrd(a.target) < StrOrd(b.target)
    \/ a.source = b.source /\ a.target = b.target /\ StrOrd(a.type) < StrOrd(b.type)

\* list.sort is stable: x goes before the first element whose key is greater
RECURSIVE InsertNode(_, _)
InsertNode(x, sorted) ==
    IF sorted = <<>> THEN <<x>>
    ELSE IF NodeKeyLess(x, Head(sorted)) THEN <<x>> \o sorted
    ELSE <<Head(sorted)>> \o InsertNode(x, Tail(sorted))

RECURSIVE SortNodes(_, _)
SortNodes(todo, sorted) ==
    IF todo = <<>> THEN sorted ELSE SortNodes(Tail(todo), InsertNode(Head(todo), sorted))

RECURSIVE InsertEdge(_, _)
InsertEdge(x, sorted) ==
    IF sorted = <<>> THEN <<x>>
    ELSE IF EdgeKeyLess(x, Head(sorted)) THEN <<x>> \o sorted
    ELSE <<Head(sorted)>> \o InsertEdge(x, Tail(sorted))

RECURSIVE SortEdges(_, _)
SortEdges(todo, sorted) ==
    IF todo = <<>> THEN sorted ELSE SortEdges(Tail(todo), InsertEdge(Head(todo), sorted))

NoGraph == EvidenceGraph(<<>>, <<>>)
CompileRaised == [raised |-> TRUE, graph |-> NoGraph]

compile_graph(r) ==
    LET nodes_data == RawGet(r, "nodes")
        edges_data == RawGet(r, "edges")
        node_kwargs == [i \in 1..Len(nodes_data) |-> Kwargs(nodes_data[i], NodeKeys)]
        edge_kwargs == [i \in 1..Len(edges_data) |-> Kwargs(edges_data[i], EdgeKeys)]
    IN  IF \E i \in 1..Len(node_kwargs) : NodeRaises(node_kwargs[i]) THEN CompileRaised
        ELSE IF \E i \in 1..Len(edge_kwargs) : EdgeRaises(edge_kwargs[i]) THEN CompileRaised
        ELSE LET nodes == SortNodes([i \in 1..Len(node_kwargs) |->
                                        NodeFromKwargs(node_kwargs[i])], <<>>)
                 edges == SortEdges([i \in 1..Len(edge_kwargs) |->
                                        EdgeFromKwargs(edge_kwargs[i])], <<>>)
                 g == EvidenceGraph(nodes, edges)
                 v == validate_graph(g)
             IN  IF v.raised \/ v.errors # <<>> THEN CompileRaised
                 ELSE [raised |-> FALSE, graph |-> g]

\* faulty variant: the node mappings come without their "hash" key
ToDictWithoutHash(g) ==
    [nodes |-> [i \in 1..Len(g.nodes) |->
                    [f \in (DOMAIN g.nodes[i]) \ {"hash"} |-> g.nodes[i][f]]],
     edges |-> g.edges]

\* EvidenceGraph.to_dict: each node and edge as the mapping of its fields,
\* which is what a Node and an Edge of the model are
to_dict(g) == [nodes |-> g.nodes, edges |-> g.edges]

-----------------------------------------------------------------------------
(* retriever/spans.py, model/answerer.py, model/planner.py *)

\* extract_span's window in plan_proof, and the answer's word limit
Window == 40
AnswerWords == 30

Max(a, b) == IF a >= b THEN a ELSE b
Min(a, b) == IF a <= b THEN a ELSE b

\* lower_words.index(qi)
IndexOf(words, w) == CHOOSE i \in 1..Len(words) :
                        words[i] = w /\ \A j \in 1..(i - 1) : words[j] # w

\* the (0-based) index of the first query word that occurs in the document, or -1
RECURSIVE FirstHit(_, _, _)
FirstHit(q_words, k, lower_words) ==
    IF k > Len(q_words) THEN -1
    ELSE IF q_words[k] \in SeqToSet(lower_words) THEN IndexOf(lower_words, q_words[k]) - 1
    ELSE FirstHit(q_words, k + 1, lower_words)

extract_span(doc_text, q, window) ==
    LET words == Split(doc_text)
        q_words == Split(Lower(q))
        lower_words == [i \in 1..Len(words) |-> Lower(words[i])]
        hit == FirstHit(q_words, 1, lower_words)
        idx == IF hit = -1 THEN 0 ELSE hit
        start == Max(0, idx - (window \div 2))
        end == Min(Len(words), start + window)
    IN  Join(<<" ">>, SubSeq(words, start + 1, end))

\* every pattern of _extract_date needs four digits in a row; the documents
\* of the model hold no digit, for which it returns None
HasDigit(text) ==
    \E i \in 1..Len(text) : text[i] \in {"0", "1", "2", "3", "4", "5", "6", "7", "8", "9"}
_extract_date(text) == None

DontKnow == <<"I", " ", "d", "o", "n", "'", "t", " ", "k", "n", "o", "w", ".">>

DateWords == {<<"w", "h", "e", "n">>, <<"d", "a", "t", "e">>,
              <<"y", "e", "a", "r">>, <<"m", "o", "n", "t", "h">>}

\* top_doc[:sentence_end.start()], the sentence ending at the first "." or "\n"
FirstSentence(text) ==
    IF \E i \in 1..Len(text) : text[i] \in {".", "\n"}
    THEN LET stop == CHOOSE i \in 1..Len(text) :
                        /\ text[i] \in {".", "\n"}
                        /\ \A j \in 1..(i - 1) : text[j] \notin {".", "\n"}
         IN  SubSeq(text, 1, stop - 1)
    ELSE text

answer_question(q, documents) ==
    IF documents = <<>> THEN DontKnow
    ELSE LET top_doc == documents[1].text
             date == IF \E w \in DateWords : IsSubstring(w, Lower(q))
                     THEN _extract_date(top_doc) ELSE None
             words == Split(FirstSentence(top_doc))
         IN  IF date # None THEN date
             ELSE Join(<<" ">>, SubSeq(words, 1, Min(Len(words), AnswerWords)))

\* faulty variant: plans the evidence node and the edge whatever it is given
HasDocumentsAlways(documents) == TRUE

\* `if documents:`
HasDocuments(documents) == documents # <<>>

NoDoc == [id |-> <<>>, text |-> <<>>]

plan_proof(q, answer, documents) ==
    LET claim_node == Node("c1", "claim", answer, None, None, NoCode, None)
        doc == IF documents # <<>> THEN documents[1] ELSE NoDoc
        span_text == extract_span(doc.text, q, Window)
        evidence_node == [Node("e1", "evidence", None, span_text,
                               _sha256_hex(span_text), NoCode, None)
                          EXCEPT !.url = doc.id]
    IN  IF HasDocuments(documents)
        THEN EvidenceGraph(<<claim_node, evidence_node>>,
                           <<Edge("e1", "c1", "supports")>>)
        ELSE EvidenceGraph(<<claim_node>>, <<>>)

\* PaladinRunner.answer_and_proof after retrieval: no compile_graph and no
\* validate_graph stands between plan_proof and _verify
answer_and_proof(q, documents) ==
    LET answer == answer_question(q, documents)
        g == plan_proof(q, answer, documents)
        v == _verify(g)
    IN  [raised |-> v.raised, answer |-> answer, graph |-> to_dict(g),
         valid |-> v.valid, details |-> v.details]

-----------------------------------------------------------------------------
(* The graphs a caller builds directly, as the tests do *)

\* "a b", "B", "no a", "4", "5", "dead"
T_ab == <<"a", " ", "b">>
T_B == <<"B">>
T_no_a == <<"n", "o", " ", "a">>
T_4 == <<"4">>
T_5 == <<"5">>
T_dead == <<"d", "e", "a", "d">>

TwoPlusTwo == BinOp(Num(2), "Add", Num(2))

\* two claims; e1 quotes the claim; e2 either holds half of its words or
\* denies one, with a stale hash; k1 is 2+2 with the right or a wrong result
NodePool == <<
    Node("c1", "claim", T_ab, None, None, NoCode, None),
    Node("c2", "claim", T_ab, None, None, NoCode, None),
    Node("e1", "evidence", None, T_ab, _sha256_hex(T_ab), NoCode, None),
    Node("e2", "evidence", None, T_B, _sha256_hex(T_B), NoCode, None),
    Node("e2", "evidence", None, T_no_a, T_dead, NoCode, None),
    Node("k1", "calc", None, None, None, TwoPlusTwo, T_4),
    Node("k1", "calc", None, None, None, TwoPlusTwo, T_5) >>

\* "zz" is the id of no node
EdgePool == {
    Edge("e1", "c1", "supports"),
    Edge("e2", "c1", "supports"),
    Edge("e1", "c1", "refutes"),
    Edge("c1", "c2", "derives"),
    Edge("e1", "c2", "cites"),
    Edge("k1", "c1", "uses-tool"),
    Edge("zz", "c1", "supports"),
    Edge("e1", "zz", "uses-tool") }

\* the elements of pool at the positions in S, in the pool's order
RECURSIVE Pick(_, _, _)
Pick(pool, S, k) ==
    IF k > Len(pool) THEN <<>>
    ELSE IF k \in S THEN <<pool[k]>> \o Pick(pool, S, k + 1)
    ELSE Pick(pool, S, k + 1)

NodeLists == {Pick(NodePool, S, 1) :
                S \in {T \in SUBSET (1..Len(NodePool)) : Cardinality(T) <= MaxNodes}}

EdgeLists == UNION {[1..k -> EdgePool] : k \in 0..MaxEdges}

Graphs == {EvidenceGraph(ns, es) : ns \in NodeLists, es \in EdgeLists}

NoRaw == [nodes |-> <<>>, edges |-> <<>>]
NoArgs == <<>>
NoRet == [raised |-> FALSE]
NoFrame == [stack |-> <<>>]

Init ==
    /\ graph \in Graphs
    /\ raw = NoRaw
    /\ query = <<>>
    /\ docs = <<>>
    /\ args = NoArgs
    /\ pc = "start"
    /\ ret = NoRet
    /\ frame = NoFrame

CheckMinimality ==
    /\ pc = "start"
    /\ pc' = "check_minimality"
    /\ ret' = check_minimality(graph)
    /\ graph' = check_minimality_leaves(graph)
    /\ UNCHANGED <<raw, query, docs, args, frame>>

Verify ==
    /\ pc = "start"
    /\ pc' = "verify"
    /\ ret' = _verify(graph)
    /\ graph' = _verify_leaves(graph)
    /\ UNCHANGED <<raw, query, docs, args, frame>>

ValidateGraph ==
    /\ pc = "start"
    /\ pc' = "validate_graph"
    /\ ret' = validate_graph(graph)
    /\ UNCHANGED <<graph, raw, query, docs, args, frame>>

\* ok, problems = check_source_binding(graph)
CheckSourceBinding ==
    /\ pc = "start"
    /\ pc' = "check_source_binding"
    /\ ret' = [raised |-> FALSE,
               passed |-> check_source_binding(graph).passed,
               problems |-> check_source_binding(graph).problems]
    /\ graph' = check_source_binding_leaves(graph)
    /\ UNCHANGED <<raw, query, docs, args, frame>>

ReachableFromEvidence ==
    /\ pc = "start"
    /\ pc' = "reachable_from_evidence"
    /\ ret' = reachable_from_evidence(graph)
    /\ UNCHANGED <<graph, raw, query, docs, args, frame>>

ValidateConnectivity ==
    /\ pc = "start"
    /\ pc' = "validate_connectivity"
    /\ ret' = validate_connectivity(graph)
    /\ UNCHANGED <<graph, raw, query, docs, args, frame>>

Next ==
    \/ CheckMinimality
    \/ Verify
    \/ ValidateGraph
    \/ CheckSourceBinding
    \/ ReachableFromEvidence
    \/ ValidateConnectivity

Spec == Init /\ [][Next]_vars

-----------------------------------------------------------------------------
(* What the claims speak of, stated apart from the code's own helpers *)

Returned(op) == pc = op /\ ~ret.raised

\* the graph with only the edge at position i omitted
OmitEdge(g, i) ==
    EvidenceGraph(g.nodes,
        [j \in 1..(Len(g.edges) - 1) |-> IF j < i THEN g.edges[j] ELSE g.edges[j + 1]])

\* edge e of g is a supports edge from an evidence node to a claim node
EvidenceToClaim(g, e) ==
    /\ e.type = "supports"
    /\ e.source \in NodeIds(g)
    /\ e.target \in NodeIds(g)
    /\ get_node(g, e.source).type = "evidence"
    /\ get_node(g, e.target).type = "claim"

SupportedEdge(g, e) ==
    GetSupportLevel(OrEmpty(get_node(g, e.source).span),
                    OrEmpty(get_node(g, e.target).text)) = "supported"

\* every supports edge from an evidence node to a claim node is supported
AllSupported(g) ==
    \A k \in 1..Len(g.edges) :
        EvidenceToClaim(g, g.edges[k]) => SupportedEdge(g, g.edges[k])

\* omitting the edge at position i leaves the graph connected and supported
Redundant(g, i) == Connected(OmitEdge(g, i)) /\ AllSupported(OmitEdge(g, i))

\* the descriptors "<source>-><target>" of the redundant edges, in edge order
RECURSIVE RedundantFrom(_, _)
RedundantFrom(g, i) ==
    IF i > Len(g.edges) THEN <<>>
    ELSE (IF Redundant(g, i) THEN <<<<g.edges[i].source, "->", g.edges[i].target>>>>
          ELSE <<>>) \o RedundantFrom(g, i + 1)

NoDanglingEdge(g) ==
    \A k \in 1..Len(g.edges) :
        g.edges[k].source \in NodeIds(g) /\ g.edges[k].target \in NodeIds(g)

DistinctIds(g) == Cardinality(NodeIds(g)) = Len(g.nodes)

-----------------------------------------------------------------------------
(* C1 *)

\* C1 as stated: for every graph with at least one edge, the removable list
\* that check_minimality returns holds exactly one descriptor per edge whose
\* omission leaves the graph connected and every evidence-to-claim supports
\* edge supported, in edge order, and is_minimal says that the list is empty.
C1_AsStated ==
    (Returned("check_minimality") /\ graph.edges # <<>>)
        => /\ ret.removable = RedundantFrom(graph, 1)
           /\ ret.is_minimal = (ret.removable = <<>>)

\* C1, amended: the same, for the graphs with at least one edge whose edges
\* all start and end at existing node ids; on these check_minimality returns.
C1_Removable ==
    (pc = "check_minimality" /\ graph.edges # <<>> /\ NoDanglingEdge(graph))
        => /\ ~ret.raised
           /\ ret.removable = RedundantFrom(graph, 1)
           /\ ret.is_minimal = (ret.removable = <<>>)

\* a graph of two edges of which exactly the second is removable
C1_Witness ==
    /\ pc = "check_minimality"
    /\ NoDanglingEdge(graph)
    /\ Len(graph.edges) = 2
    /\ ~Redundant(graph, 1)
    /\ Redundant(graph, 2)
    /\ ret.removable = <<<<graph.edges[2].source, "->", graph.edges[2].target>>>>

-----------------------------------------------------------------------------
(* C2 *)

\* C2: whenever verify returns, valid is the conjunction of the four passed
\* flags it reports in details (hash, entailment, minimality, numeric).
C2_ValidIsConjunction ==
    Returned("verify")
        => ret.valid = (/\ ret.details.hash.passed
                        /\ ret.details.entailment.passed
                        /\ ret.details.minimality.passed
                        /\ ret.details.numeric.passed)

\* three checks pass, minimality alone fails, and valid is false
C2_Witness ==
    /\ Returned("verify")
    /\ ret.details.hash.passed
    /\ ret.details.entailment.passed
    /\ ret.details.numeric.passed
    /\ ~ret.details.minimality.passed
    /\ graph.edges # <<>>
    /\ ~ret.valid

-----------------------------------------------------------------------------
(* C4 *)

DanglingSources(g) ==
    {g.edges[k].source : k \in {j \in 1..Len(g.edges) : g.edges[j].source \notin NodeIds(g)}}
DanglingTargets(g) ==
    {g.edges[k].target : k \in {j \in 1..Len(g.edges) : g.edges[j].target \notin NodeIds(g)}}

\* C4: for every graph with a duplicate node id and an edge with a dangling
\* endpoint, validate_graph returns a list that holds the duplicate-id
\* violation and a violation for each dangling endpoint.
C4_AllViolationsReported ==
    (pc = "validate_graph" /\ ~DistinctIds(graph) /\ ~NoDanglingEdge(graph))
        => /\ ~ret.raised
           /\ DuplicateError \in SeqToSet(ret.errors)
           /\ \A id \in DanglingSources(graph) :
                <<"Edge source ", id, " does not exist">> \in SeqToSet(ret.errors)
           /\ \A id \in DanglingTargets(graph) :
                <<"Edge target ", id, " does not exist">> \in SeqToSet(ret.errors)

-----------------------------------------------------------------------------
(* C7 *)

\* C7: for every graph with zero edges, whatever its nodes, check_minimality
\* returns (False, []).
C7_NoEdges ==
    (pc = "check_minimality" /\ graph.edges = <<>>)
        => ~ret.raised /\ ~ret.is_minimal /\ ret.removable = <<>>

\* a graph of three nodes and no edge
C7_Witness ==
    /\ pc = "check_minimality"
    /\ graph.edges = <<>>
    /\ Len(graph.nodes) = 3
    /\ ~ret.is_minimal

-----------------------------------------------------------------------------
(* C8, C9, C10 *)

\* g is made of one claim and n evidence nodes, all of different ids, and of
\* n supports edges, one from each evidence node to the claim, each span
\* classifying as supported for the claim text
StarOfSupport(g, n) ==
    /\ Len(g.nodes) = n + 1
    /\ DistinctIds(g)
    /\ Len(claims(g)) = 1
    /\ Len(evidence_nodes(g)) = n
    /\ Len(g.edges) = n
    /\ \A k \in 1..n :
         /\ g.edges[k].type = "supports"
         /\ g.edges[k].target = claims(g)[1].id
         /\ \E m \in 1..n :
              /\ g.edges[k].source = evidence_nodes(g)[m].id
              /\ GetSupportLevel(OrEmpty(evidence_nodes(g)[m].span),
                                 OrEmpty(claims(g)[1].text)) = "supported"
    /\ \A k, m \in 1..n : k # m => g.edges[k].source # g.edges[m].source

\* C8: one claim, two distinct evidence nodes, each joined to the claim by a
\* supports edge whose span is supported: not minimal, both edges removable.
C8_TwoEdgesNotMinimal ==
    (pc = "check_minimality" /\ StarOfSupport(graph, 2))
        => /\ ~ret.raised
           /\ ~ret.is_minimal
           /\ ret.removable = <<<<graph.edges[1].source, "->", graph.edges[1].target>>,
                                <<graph.edges[2].source, "->", graph.edges[2].target>>>>

C8_Witness ==
    /\ pc = "check_minimality"
    /\ StarOfSupport(graph, 2)
    /\ Len(ret.removable) = 2

\* C9: one claim, one evidence node and a single supports edge from the
\* evidence to the claim, the span supported: minimal, nothing removable.
C9_SingleEdgeMinimal ==
    (pc = "check_minimality" /\ StarOfSupport(graph, 1))
        => ~ret.raised /\ ret.is_minimal /\ ret.removable = <<>>

C9_Witness ==
    /\ pc = "check_minimality"
    /\ StarOfSupport(graph, 1)
    /\ ret.is_minimal

\* C10: for that single-edge graph, when the stored hash is the digest of the
\* span, verify returns valid = True with minimality.passed = True.
C10_SingleEdgeValid ==
    (/\ pc = "verify"
     /\ StarOfSupport(graph, 1)
     /\ evidence_nodes(graph)[1].hash = _sha256_hex(evidence_nodes(graph)[1].span))
        => ~ret.raised /\ ret.valid /\ ret.details.minimality.passed

C10_Witness ==
    /\ pc = "verify"
    /\ StarOfSupport(graph, 1)
    /\ evidence_nodes(graph)[1].hash = _sha256_hex(evidence_nodes(graph)[1].span)
    /\ ret.valid

-----------------------------------------------------------------------------
(* The raw records handed to compile_graph *)

\* node records in an order that is not the sorted one: with a key the
\* compiler does not know, with a repeated id, with an unknown type, without type
RawNodePool == <<
    [id |-> "e2", type |-> "evidence", span |-> T_B, hash |-> _sha256_hex(T_B)],
    [id |-> "c2", type |-> "claim", text |-> T_ab, note |-> T_dead],
    [id |-> "e1", type |-> "evidence", url |-> T_dead, span |-> T_ab,
     hash |-> _sha256_hex(T_ab)],
    [id |-> "c1", type |-> "claim", text |-> T_ab],
    [id |-> "e1", type |-> "evidence", span |-> T_no_a, hash |-> T_dead],
    [id |-> "k1", type |-> "tool"],
    [id |-> "k1"] >>

RawEdgePool == {
    [source |-> "e1", target |-> "c1", type |-> "supports"],
    [source |-> "e1", target |-> "c1", type |-> "cites"],
    [source |-> "e2", target |-> "c1", type |-> "supports", weight |-> T_4],
    [source |-> "c1", target |-> "c2", type |-> "derives"],
    [source |-> "e1", target |-> "zz", type |-> "supports"],
    [source |-> "zz", target |-> "c1", type |-> "refutes"],
    [source |-> "e1", target |-> "c1", type |-> "proves"],
    [source |-> "e1", target |-> "c1"] }

RawNodeLists == {Pick(RawNodePool, S, 1) :
                    S \in {T \in SUBSET (1..Len(RawNodePool)) : Cardinality(T) <= MaxRawNodes}}

RawEdgeLists == UNION {[1..k -> RawEdgePool] : k \in 0..MaxRawEdges}

\* a record may also come without its "edges" key
Raws == {[nodes |-> ns, edges |-> es] : ns \in RawNodeLists, es \in RawEdgeLists}
            \cup {[nodes |-> ns] : ns \in RawNodeLists}

InitCompile ==
    /\ raw \in Raws
    /\ graph = NoGraph
    /\ query = <<>>
    /\ docs = <<>>
    /\ args = NoArgs
    /\ pc = "start"
    /\ ret = NoRet
    /\ frame = NoFrame

\* graph = compile_graph(raw): no graph reaches the caller when it raises
CompileGraph ==
    /\ pc = "start"
    /\ pc' = "compile_graph"
    /\ ret' = compile_graph(raw)
    /\ graph' = IF ret'.raised THEN graph ELSE ret'.graph
    /\ UNCHANGED <<raw, query, docs, args, frame>>

\* errors = validate_graph(graph) on what was compiled (tests/test_egl.py)
ValidateCompiled ==
    /\ pc = "compile_graph"
    /\ ~ret.raised
    /\ pc' = "validate_graph"
    /\ ret' = validate_graph(graph)
    /\ UNCHANGED <<graph, raw, query, docs, args, frame>>

\* compile_graph(graph.to_dict()) on what was compiled
Recompile ==
    /\ pc = "compile_graph"
    /\ ~ret.raised
    /\ pc' = "recompiled"
    /\ raw' = to_dict(graph)
    /\ ret' = compile_graph(raw')
    /\ UNCHANGED <<graph, query, docs, args, frame>>

NextCompile == CompileGraph \/ ValidateCompiled \/ Recompile

SpecCompile == InitCompile /\ [][NextCompile]_vars

-----------------------------------------------------------------------------
(* PaladinRunner.answer_and_proof *)

\* top_k of answer_and_proof
TopK == 3

\* "a b. B", "no a B", "B\na", ""
DocPool == {
    [id |-> <<"d", "x">>, text |-> <<"a", " ", "b", ".", " ", "B">>],
    [id |-> <<"d", "y">>, text |-> <<"n", "o", " ", "a", " ", "B">>],
    [id |-> <<"d", "z">>, text |-> <<"B", "\n", "a">>],
    [id |-> <<"d", "w">>, text |-> <<>>] }

\* "b", "when a", ""
QueryPool == {<<"b">>, <<"w", "h", "e", "n", " ", "a">>, <<>>}

\* SimpleRetriever.retrieve: [] for an empty corpus, else the top_k documents
\* by a floating-point TF-IDF score that is not modelled: any list of at most
\* top_k documents of the corpus
Retrievable == {ds \in UNION {[1..k -> DocPool] : k \in 0..TopK} :
                    \A i \in 1..Len(ds) : ~HasDigit(ds[i].text)}

InitPipeline ==
    /\ query \in QueryPool
    /\ docs = <<>>
    /\ graph = NoGraph
    /\ raw = NoRaw
    /\ args = NoArgs
    /\ pc = "start"
    /\ ret = NoRet
    /\ frame = NoFrame

\* docs = self.retriever.retrieve(query, top_k=top_k)
Retrieve ==
    /\ pc = "start"
    /\ docs' \in Retrievable
    /\ pc' = "retrieved"
    /\ UNCHANGED <<graph, raw, query, args, ret, frame>>

\* the rest of answer_and_proof: answer, plan, verify, return
AnswerAndProof ==
    /\ pc = "retrieved"
    /\ pc' = "answer_and_proof"
    /\ ret' = answer_and_proof(query, docs)
    /\ graph' = plan_proof(query, answer_question(query, docs), docs)
    /\ UNCHANGED <<raw, query, docs, args, frame>>

NextPipeline == Retrieve \/ AnswerAndProof

SpecPipeline == InitPipeline /\ [][NextPipeline]_vars

-----------------------------------------------------------------------------
(* C3 *)

\* structural validation (validate_graph) does not pass g
StructurallyInvalid(g) == LET v == validate_graph(g) IN v.raised \/ v.errors # <<>>

-----------------------------------------------------------------------------
(* C5 *)

\* the ids that a path of supports, derives, cites or uses-tool edges joins
\* to S, S included
RECURSIVE Closure(_, _)
Closure(g, S) ==
    LET T == S \cup {g.edges[k].target :
                        k \in {j \in 1..Len(g.edges) :
                                  /\ g.edges[j].source \in S
                                  /\ g.edges[j].type \in
                                        {"supports", "derives", "cites", "uses-tool"}}}
    IN  IF T = S THEN S ELSE Closure(g, T)

Backed(g) ==
    Closure(g, {g.nodes[i].id :
                  i \in {j \in 1..Len(g.nodes) :
                            g.nodes[j].type \in {"evidence", "calc", "entailment"}}})

\* kinds and relations in their sets, ids pairwise distinct, no dangling
\* edge, every claim without an incoming derives edge backed
WellFormed(g) ==
    /\ \A i \in 1..Len(g.nodes) :
            g.nodes[i].type \in {"claim", "evidence", "calc", "entailment"}
    /\ \A k \in 1..Len(g.edges) :
            g.edges[k].type \in {"supports", "refutes", "derives", "uses-tool", "cites"}
    /\ \A i, j \in 1..Len(g.nodes) : i # j => g.nodes[i].id # g.nodes[j].id
    /\ \A k \in 1..Len(g.edges) :
            /\ \E i \in 1..Len(g.nodes) : g.nodes[i].id = g.edges[k].source
            /\ \E i \in 1..Len(g.nodes) : g.nodes[i].id = g.edges[k].target
    /\ \A i \in 1..Len(g.nodes) :
            (/\ g.nodes[i].type = "claim"
             /\ \A k \in 1..Len(g.edges) :
                    g.edges[k].target = g.nodes[i].id => g.edges[k].type # "derives")
                => g.nodes[i].id \in Backed(g)

\* every node record has id and type, every edge record source, target, type
RawComplete(r) ==
    /\ \A i \in 1..Len(RawGet(r, "nodes")) :
            {"id", "type"} \subseteq DOMAIN RawGet(r, "nodes")[i]
    /\ \A k \in 1..Len(RawGet(r, "edges")) :
            {"source", "target", "type"} \subseteq DOMAIN RawGet(r, "edges")[k]

RawAsGraph(r) == [nodes |-> RawGet(r, "nodes"), edges |-> RawGet(r, "edges")]

\* C5: a graph that compile_graph returns has its kinds and relations in the
\* fixed sets, distinct ids, no dangling edge, every final claim reachable,
\* and validate_graph finds nothing in it; a record that fails one of these
\* makes compile_graph raise, and no graph is returned.
C5_CompiledGraphWellFormed ==
    pc = "compile_graph"
        => /\ ~ret.raised =>
                /\ WellFormed(ret.graph)
                /\ validate_graph(ret.graph) = [raised |-> FALSE, errors |-> <<>>]
                /\ graph = ret.graph
           /\ (RawComplete(raw) /\ ~WellFormed(RawAsGraph(raw)))
                => ret.raised /\ graph = NoGraph

\* a record of three nodes and two edges compiles
C5_Witness ==
    /\ pc = "compile_graph"
    /\ ~ret.raised
    /\ Len(graph.nodes) = 3
    /\ Len(graph.edges) = 2
    /\ WellFormed(graph)

-----------------------------------------------------------------------------
(* C6 *)

Perms(n) == {f \in [1..n -> 1..n] : \A i, j \in 1..n : i # j => f[i] # f[j]}

\* the record r with its nodes list and its edges list reordered
Reordered(r, f, h) ==
    [nodes |-> [i \in 1..Len(RawGet(r, "nodes")) |-> RawGet(r, "nodes")[f[i]]],
     edges |-> [i \in 1..Len(RawGet(r, "edges")) |-> RawGet(r, "edges")[h[i]]]]

\* ids ascending, and (source, target, relation) ascending
Canonical(g) ==
    /\ \A i \in 1..(Len(g.nodes) - 1) : StrOrd(g.nodes[i].id) < StrOrd(g.nodes[i + 1].id)
    /\ \A k \in 1..(Len(g.edges) - 1) :
          LET a == g.edges[k]
              b == g.edges[k + 1]
          IN  \/ StrOrd(a.source) < StrOrd(b.source)
              \/ /\ a.source = b.source
                 /\ StrOrd(a.target) < StrOrd(b.target)
              \/ /\ a.source = b.source
                 /\ a.target = b.target
                 /\ StrOrd(a.type) <= StrOrd(b.type)

\* C6: for every reordering of the record's nodes and of its edges,
\* compile_graph fails on both or gives the same canonical output, nodes in
\* ascending id order and edges in ascending (source, target, relation) order.
C6_OrderInsensitive ==
    pc = "compile_graph"
        => /\ ~ret.raised => Canonical(ret.graph)
           /\ \A f \in Perms(Len(RawGet(raw, "nodes"))) :
              \A h \in Perms(Len(RawGet(raw, "edges"))) :
                LET other == compile_graph(Reordered(raw, f, h))
                IN  /\ other.raised = ret.raised
                    /\ ~ret.raised => to_dict(other.graph) = to_dict(ret.graph)

\* a record given out of order, with two edges that differ in the relation
\* alone, compiles
C6_Witness ==
    /\ pc = "compile_graph"
    /\ ~ret.raised
    /\ Len(raw.nodes) = 3
    /\ Len(graph.edges) = 2
    /\ graph.nodes # [i \in 1..Len(raw.nodes) |-> NodeFromKwargs(Kwargs(raw.nodes[i], NodeKeys))]
    /\ graph.edges[1].source = graph.edges[2].source
    /\ graph.edges[1].target = graph.edges[2].target
    /\ graph.edges[1].type # graph.edges[2].type

-----------------------------------------------------------------------------
(* C11 *)

\* C11: for every structurally valid graph (distinct node ids, no dangling
\* edge, every final claim reachable) verify returns a result without raising,
\* and details holds the four sections hash, entailment, minimality and
\* numeric, also when an earlier check has failed.
C11_VerifyAlwaysReturns ==
    (pc = "verify" /\ WellFormed(graph))
        => /\ ~ret.raised
           /\ ret.valid \in BOOLEAN
           /\ DOMAIN ret.details = {"hash", "entailment", "minimality", "numeric"}
           /\ \A sec \in DOMAIN ret.details : ret.details[sec].passed \in BOOLEAN

\* a structurally valid graph whose hash and entailment checks fail: the
\* minimality and numeric sections are there all the same
C11_Witness ==
    /\ pc = "verify"
    /\ WellFormed(graph)
    /\ graph.edges # <<>>
    /\ ~ret.raised
    /\ ~ret.details.hash.passed
    /\ ~ret.details.entailment.passed
    /\ ret.details.minimality.passed
    /\ ret.details.numeric.passed

-----------------------------------------------------------------------------
(* C12 *)

-----------------------------------------------------------------------------
(* The graphs handed to the hash check alone *)

\* None, "", "a b", "B"
SpanPool == {None, <<>>, T_ab, T_B}

\* None, "", the digests of "", "a b" and "B", and "dead"
HashPool == {None, <<>>, _sha256_hex(<<>>), _sha256_hex(T_ab), _sha256_hex(T_B), T_dead}

\* a claim; e1 with every span and every hash; e2 bound, stale, without span
HashNodePool ==
    <<Node("c1", "claim", T_ab, T_ab, T_dead, NoCode, None),
      Node("e1", "evidence", None, None, None, NoCode, None),
      Node("e1", "evidence", None, None, <<>>, NoCode, None),
      Node("e1", "evidence", None, None, _sha256_hex(<<>>), NoCode, None),
      Node("e1", "evidence", None, None, T_dead, NoCode, None),
      Node("e1", "evidence", None, <<>>, None, NoCode, None),
      Node("e1", "evidence", None, <<>>, <<>>, NoCode, None),
      Node("e1", "evidence", None, <<>>, _sha256_hex(<<>>), NoCode, None),
      Node("e1", "evidence", None, <<>>, _sha256_hex(T_B), NoCode, None),
      Node("e1", "evidence", None, T_ab, None, NoCode, None),
      Node("e1", "evidence", None, T_ab, <<>>, NoCode, None),
      Node("e1", "evidence", None, T_ab, _sha256_hex(<<>>), NoCode, None),
      Node("e1", "evidence", None, T_ab, _sha256_hex(T_ab), NoCode, None),
      Node("e1", "evidence", None, T_ab, _sha256_hex(T_B), NoCode, None),
      Node("e1", "evidence", None, T_ab, T_dead, NoCode, None),
      Node("e1", "evidence", None, T_B, _sha256_hex(T_B), NoCode, None),
      Node("e1", "evidence", None, T_B, _sha256_hex(T_ab), NoCode, None),
      Node("e2", "evidence", None, T_B, _sha256_hex(T_B), NoCode, None),
      Node("e2", "evidence", None, T_B, T_dead, NoCode, None),
      Node("e2", "evidence", None, None, _sha256_hex(T_B), NoCode, None)>>

HashNodeLists == {Pick(HashNodePool, S, 1) :
                    S \in {T \in SUBSET (1..Len(HashNodePool)) : Cardinality(T) <= MaxNodes}}

InitHash ==
    /\ graph \in {EvidenceGraph(ns, <<>>) : ns \in HashNodeLists}
    /\ raw = NoRaw
    /\ query = <<>>
    /\ docs = <<>>
    /\ args = NoArgs
    /\ pc = "start"
    /\ ret = NoRet
    /\ frame = NoFrame

NextHash == CheckSourceBinding

SpecHash == InitHash /\ [][NextHash]_vars

-----------------------------------------------------------------------------
(* C13 *)

\* the ids that the problems of the hash check name
ProblemIds(problems) ==
    {id \in {"c1", "e1", "e2"} :
        \E i \in 1..Len(problems) :
            problems[i] \in {<<"evidence ", id, " missing span">>,
                             <<"evidence ", id, " missing hash">>,
                             <<"hash mismatch for ", id>>}}

\* the recomputed digest of the span of node n equals its stored hash
DigestMatches(n) == _sha256_hex(OrEmpty(n.span)) = OrEmpty(n.hash)

\* the evidence nodes of g with the given id
EvidenceWithId(g, id) ==
    {k \in 1..Len(g.nodes) : g.nodes[k].type = "evidence" /\ g.nodes[k].id = id}

\* g with the span and the stored hash of the node at position k changed
Tampered(g, k, span, h) ==
    EvidenceGraph([j \in 1..Len(g.nodes) |->
                      IF j = k THEN [g.nodes[j] EXCEPT !.span = span, !.hash = h]
                      ELSE g.nodes[j]],
                  g.edges)

\* whatever span and stored hash that do not match replaces those of a passing
\* node, the check reports a problem for the node and passed is false
TamperingDetected(g) ==
    \A k \in 1..Len(g.nodes) :
        (g.nodes[k].type = "evidence" /\ g.nodes[k].id \notin ProblemIds(ret.problems))
            => \A span \in SpanPool : \A h \in HashPool :
                  ~DigestMatches([span |-> span, hash |-> h])
                      => LET again == check_source_binding(Tampered(g, k, span, h))
                         IN  /\ ~again.passed
                             /\ g.nodes[k].id \in ProblemIds(again.problems)

\* C13 as stated: the hash check reports no problem for an evidence node iff
\* the recomputed digest of its span equals its stored hash, for every span and
\* stored hash, the empty ones included.
C13_AsStated ==
    pc = "check_source_binding"
        => \A id \in {"e1", "e2"} :
              EvidenceWithId(graph, id) # {}
                  => (id \notin ProblemIds(ret.problems)
                        <=> \A k \in EvidenceWithId(graph, id) : DigestMatches(graph.nodes[k]))

\* C13, amended: the hash check reports no problem for an evidence node iff
\* its span is not empty and the recomputed digest of the span equals its stored
\* hash (an evidence node with an empty span is reported whatever its stored
\* hash); passed is true iff no problem is reported; a span and a stored hash
\* that do not match, put in the place of those of a passing node, make the
\* check report a problem for the node and passed false.
C13_HashBinding ==
    pc = "check_source_binding"
        => /\ \A id \in {"e1", "e2"} :
                EvidenceWithId(graph, id) # {}
                  => (id \notin ProblemIds(ret.problems)
                        <=> \A k \in EvidenceWithId(graph, id) :
                               /\ OrEmpty(graph.nodes[k].span) # <<>>
                               /\ DigestMatches(graph.nodes[k]))
           /\ ret.passed = (ret.problems = <<>>)
           /\ "c1" \notin ProblemIds(ret.problems)
           /\ TamperingDetected(graph)

\* two evidence nodes, the first bound to its span, the second stale: a
\* problem for the second alone
C13_Witness ==
    /\ pc = "check_source_binding"
    /\ Len(graph.nodes) = 3
    /\ EvidenceWithId(graph, "e1") # {}
    /\ EvidenceWithId(graph, "e2") # {}
    /\ \A k \in EvidenceWithId(graph, "e1") : DigestMatches(graph.nodes[k])
    /\ ProblemIds(ret.problems) = {"e2"}
    /\ ~ret.passed

-----------------------------------------------------------------------------
(* get_support_level called on a premise and a hypothesis *)

\* "a", "ab", "B", "no", "not"
WordPool == {<<"a">>, <<"a", "b">>, <<"B">>, <<"n", "o">>, <<"n", "o", "t">>}

\* the texts of at most n words of the pool, one space between two words, and
\* the text that is one space
TextsOf(n) ==
    {Join(<<" ">>, ws) : ws \in UNION {[1..k -> WordPool] : k \in 0..n}} \cup {<<" ">>}

InitClassify ==
    /\ args \in [premise : TextsOf(MaxPremiseWords), hypothesis : TextsOf(MaxHypothesisWords)]
    /\ graph = NoGraph
    /\ raw = NoRaw
    /\ query = <<>>
    /\ docs = <<>>
    /\ pc = "start"
    /\ ret = NoRet
    /\ frame = NoFrame

\* level = get_support_level(premise, hypothesis)
CallGetSupportLevel ==
    /\ pc = "start"
    /\ pc' = "get_support_level"
    /\ ret' = [raised |-> FALSE, level |-> GetSupportLevel(args.premise, args.hypothesis)]
    /\ UNCHANGED <<graph, raw, query, docs, args, frame>>

NextClassify == CallGetSupportLevel

SpecClassify == InitClassify /\ [][NextClassify]_vars

-----------------------------------------------------------------------------
(* C14 *)

\* for some marker among not, no, never and some token of the hypothesis, the
\* phrase "<marker> <token>" occurs in the lowercased premise
NegatedToken(premise, hypothesis) ==
    \E marker \in {<<"n", "o", "t">>, <<"n", "o">>, <<"n", "e", "v", "e", "r">>} :
    \E i \in 1..Len(Tokenize(hypothesis)) :
        IsSubstring(marker \o <<" ">> \o Tokenize(hypothesis)[i], Lower(premise))

\* every token of the hypothesis is a token of the premise: overlap ratio 1
FullOverlap(premise, hypothesis) ==
    /\ Tokenize(hypothesis) # <<>>
    /\ SeqToSet(Tokenize(hypothesis)) \subseteq SeqToSet(Tokenize(premise))

\* C14: if the premise holds "<marker> <token>" for a negation marker and a
\* hypothesis token, get_support_level returns contradicted, however high the
\* token-overlap ratio is.
C14_ContradictionFirst ==
    (pc = "get_support_level" /\ NegatedToken(args.premise, args.hypothesis))
        => ret.level = "contradicted"

\* every hypothesis token is in the premise, one of them after a marker
C14_Witness ==
    /\ pc = "get_support_level"
    /\ NegatedToken(args.premise, args.hypothesis)
    /\ FullOverlap(args.premise, args.hypothesis)
    /\ Len(Tokenize(args.hypothesis)) = 2
    /\ ret.level = "contradicted"

-----------------------------------------------------------------------------
(* check_numeric_calc called on an expression and an expected result *)

UnaryOps == {"USub", "UAdd", "Invert", "Not"}
BinOps == {"Add", "Sub", "Mult", "Div", "FloorDiv", "Mod", "Pow"}

Nums == {Num(n) : n \in 0..MaxNum}

\* a number, '4', True, None, a name, a call
Leaves == Nums \cup {Const("str", 0, T_4), Const("bool", 1, <<>>), Const("none", 0, <<>>),
                     [k |-> "Name"], [k |-> "Call"]}

\* what the code text parses to: a leaf, a unary operator on a leaf, a binary
\* operator on two leaves, -(n op m), (-n) op m, or nothing (SyntaxError)
Exprs ==
    Leaves
    \cup {UnaryOp(op, x) : op \in UnaryOps, x \in Leaves}
    \cup {BinOp(l, op, r) : l \in Leaves, op \in BinOps, r \in Leaves}
    \cup {UnaryOp("USub", BinOp(l, op, r)) : l \in Nums, op \in BinOps, r \in Nums}
    \cup {BinOp(UnaryOp("USub", l), op, r) : l \in Nums, op \in BinOps, r \in Nums}
    \cup {[k |-> "SyntaxError"]}

\* the expected results: the integers of small size, "2.0", "0.0", "-0.0",
\* "True", "None", "44" and ""
Expecteds ==
    {IntToStr(n) : n \in (0 - MaxNum * MaxNum)..(MaxNum * MaxNum)}
    \cup {<<"2", ".", "0">>, <<"0", ".", "0">>, <<"-", "0", ".", "0">>,
          <<"T", "r", "u", "e">>, <<"N", "o", "n", "e">>, <<"4", "4">>, <<>>}

InitNumeric ==
    /\ args \in [code : Exprs, expected : Expecteds]
    /\ graph = NoGraph
    /\ raw = NoRaw
    /\ query = <<>>
    /\ docs = <<>>
    /\ pc = "start"
    /\ ret = NoRet
    /\ frame = NoFrame

\* ok = check_numeric_calc(code, expected)
CallCheckNumericCalc ==
    /\ pc = "start"
    /\ pc' = "check_numeric_calc"
    /\ ret' = [raised |-> FALSE, value |-> check_numeric_calc(args.code, args.expected)]
    /\ UNCHANGED <<graph, raw, query, docs, args, frame>>

NextNumeric == CallCheckNumericCalc

SpecNumeric == InitNumeric /\ [][NextNumeric]_vars

-----------------------------------------------------------------------------
(* C15, C16, C17, C18 *)

\* the restricted grammar: numeric literals, unary negation, and the binary
\* operators + - * / // % **
RECURSIVE InGrammar(_)
InGrammar(e) ==
    CASE e.k = "Constant" -> e.t = "int"
      [] e.k = "UnaryOp" -> e.op = "USub" /\ InGrammar(e.operand)
      [] e.k = "BinOp" ->
            /\ e.op \in {"Add", "Sub", "Mult", "Div", "FloorDiv", "Mod", "Pow"}
            /\ InGrammar(e.left)
            /\ InGrammar(e.right)
      [] OTHER -> FALSE

\* the value of an expression of the restricted grammar, or the failure of its
\* evaluation (a division by zero); the exponents of the model are literals
RECURSIVE Evaluate(_)
Evaluate(e) ==
    CASE e.k = "Constant" -> IntValue(e.v)
      [] e.k = "UnaryOp" ->
            LET x == Evaluate(e.operand)
            IN  IF x.raised THEN Raise
                ELSE IF x.t = "int" THEN IntValue(0 - x.v)
                ELSE IF x.v = 0 THEN Value("float", 0, 0 - x.d, <<>>)
                ELSE Value("float", 0 - x.v, x.d, <<>>)
      [] e.k = "BinOp" ->
            LET l == Evaluate(e.left)
                r == Evaluate(e.right)
            IN  IF l.raised \/ r.raised THEN Raise
                ELSE CASE e.op = "Add" -> IntValue(l.v + r.v)
                       [] e.op = "Sub" -> IntValue(l.v - r.v)
                       [] e.op = "Mult" -> IntValue(l.v * r.v)
                       [] e.op = "Div" -> IF r.v = 0 THEN Raise
                                          ELSE Value("float", l.v, r.v, <<>>)
                       [] e.op = "FloorDiv" -> IF r.v = 0 THEN Raise
                                               ELSE IntValue(PyFloorDiv(l.v, r.v))
                       [] e.op = "Mod" -> IF r.v = 0 THEN Raise
                                          ELSE IntValue(PyMod(l.v, r.v))
                       [] e.op = "Pow" -> IF r.v = 0 THEN IntValue(1)
                                          ELSE IntValue(l.v ^ r.v)

\* C15: check_numeric_calc returns True iff the expression evaluates under the
\* restricted grammar and the string form of the result equals expected; on
\* every failure of the evaluation it returns False; it never raises.
C15_CheckIffEvaluates ==
    pc = "check_numeric_calc"
        => /\ ~ret.raised
           /\ ret.value = (/\ InGrammar(args.code)
                           /\ ~Evaluate(args.code).raised
                           /\ Str(Evaluate(args.code)) = args.expected)

\* C16: an exponentiation over two numeric literals is evaluated, and the
\* check returns True when expected is the string form of the power.
C16_PowSupported ==
    (/\ pc = "check_numeric_calc"
     /\ args.code.k = "BinOp"
     /\ args.code.op = "Pow"
     /\ args.code.left \in Nums
     /\ args.code.right \in Nums
     /\ args.expected = Str(Evaluate(args.code)))
        => ret.value

\* e uses a unary operator that is not the negation
RECURSIVE UsesOtherUnary(_)
UsesOtherUnary(e) ==
    CASE e.k = "UnaryOp" -> e.op # "USub" \/ UsesOtherUnary(e.operand)
      [] e.k = "BinOp" -> UsesOtherUnary(e.left) \/ UsesOtherUnary(e.right)
      [] OTHER -> FALSE

\* C17: an expression that uses unary plus, bitwise not or logical not is
\* rejected: the check returns False for it whatever expected is.
C17_OnlyNegation ==
    (pc = "check_numeric_calc" /\ UsesOtherUnary(args.code)) => ~ret.value

\* e is or contains a string, boolean or None constant
RECURSIVE HasOtherConstant(_)
HasOtherConstant(e) ==
    CASE e.k = "Constant" -> e.t # "int"
      [] e.k = "UnaryOp" -> HasOtherConstant(e.operand)
      [] e.k = "BinOp" -> HasOtherConstant(e.left) \/ HasOtherConstant(e.right)
      [] OTHER -> FALSE

\* C18: an expression that is or contains a string, boolean or None constant
\* is rejected: the check returns False for it, also when the string form of
\* the constant equals expected.
C18_OnlyNumericLiterals ==
    (pc = "check_numeric_calc" /\ HasOtherConstant(args.code)) => ~ret.value

-----------------------------------------------------------------------------
(* C19, C20 *)

FinalClaimAt(g, i) ==
    /\ g.nodes[i].type = "claim"
    /\ \A k \in 1..Len(g.edges) :
          g.edges[k].target = g.nodes[i].id => g.edges[k].type # "derives"

-----------------------------------------------------------------------------
(* C21 *)

\* the number of positions of the hypothesis tokens whose token is one of the
\* premise tokens: a token that occurs twice in the hypothesis counts twice
Overlap(premise, hypothesis) ==
    LET h == Tokenize(hypothesis)
        Count[i \in 0..Len(h)] ==
            IF i = 0 THEN 0
            ELSE Count[i - 1]
                 + (IF \E j \in 1..Len(Tokenize(premise)) : Tokenize(premise)[j] = h[i]
                    THEN 1 ELSE 0)
    IN  Count[Len(h)]

\* C21: get_support_level returns one of the three levels on every premise
\* and hypothesis; it returns supported exactly when the hypothesis has a
\* token, no "<marker> <token>" phrase is in the premise and at least half of
\* the hypothesis tokens, counted with multiplicity, are premise tokens (a
\* ratio of exactly 0.5 included); it returns unverifiable when the hypothesis
\* has no token, and when no phrase matches and the ratio is below 0.5.
C21_SupportedIffHalfOverlap ==
    pc = "get_support_level" =>
        LET n == Len(Tokenize(args.hypothesis))
            m == Overlap(args.premise, args.hypothesis)
            negated == NegatedToken(args.premise, args.hypothesis)
        IN  /\ ~ret.raised
            /\ ret.level \in {"supported", "contradicted", "unverifiable"}
            /\ ret.level = "supported" <=> (n > 0 /\ ~negated /\ 2 * m >= n)
            /\ (n = 0 \/ (~negated /\ 2 * m < n)) => ret.level = "unverifiable"

\* one of the two hypothesis tokens is a premise token: a ratio of exactly 0.5
C21_Witness ==
    /\ pc = "get_support_level"
    /\ Len(Tokenize(args.hypothesis)) = 2
    /\ Overlap(args.premise, args.hypothesis) = 1
    /\ ~NegatedToken(args.premise, args.hypothesis)
    /\ ret.level = "supported"

\* one token of three is a premise token: a ratio strictly between 0.1 and 0.5
C21_BandWitness ==
    /\ pc = "get_support_level"
    /\ Len(Tokenize(args.hypothesis)) = 3
    /\ Overlap(args.premise, args.hypothesis) = 1
    /\ ~NegatedToken(args.premise, args.hypothesis)
    /\ ret.level = "unverifiable"

\* a repeated token counts twice: "a a B" against "a" is two of three
C21_MultiplicityWitness ==
    /\ pc = "get_support_level"
    /\ Len(Tokenize(args.hypothesis)) = 3
    /\ Cardinality(SeqToSet(Tokenize(args.hypothesis))) = 2
    /\ Cardinality(SeqToSet(Tokenize(args.hypothesis))
                   \cap SeqToSet(Tokenize(args.premise))) = 1
    /\ Overlap(args.premise, args.hypothesis) = 2
    /\ ret.level = "supported"

-----------------------------------------------------------------------------
(* C22 *)

\* C22 as stated: when the premise (the evidence span) and the hypothesis (the
\* claim text) are the same non-empty text, get_support_level returns
\* supported.
C22_AsStated ==
    (pc = "get_support_level" /\ args.premise = args.hypothesis
        /\ args.premise # <<>>)
        => ret.level = "supported"

\* C22 amended: when the premise and the hypothesis are the same text, the
\* text has at least one token and holds no "<marker> <token>" phrase for one
\* of its own tokens, get_support_level returns supported.
C22_SameTextSupported ==
    (pc = "get_support_level" /\ args.premise = args.hypothesis
        /\ Tokenize(args.hypothesis) # <<>>
        /\ ~NegatedToken(args.premise, args.hypothesis))
        => ret.level = "supported"

\* the same text with an uppercase word on both sides
C22_Witness ==
    /\ pc = "get_support_level"
    /\ args.premise = args.hypothesis
    /\ Tokenize(args.hypothesis) # <<>>
    /\ Split(args.hypothesis) # Tokenize(args.hypothesis)
    /\ ~NegatedToken(args.premise, args.hypothesis)
    /\ ret.level = "supported"

\* the same text on both sides, a negation marker before one of its tokens
C22_NegatedSameText ==
    /\ pc = "get_support_level"
    /\ args.premise = args.hypothesis
    /\ NegatedToken(args.premise, args.hypothesis)
    /\ ret.level = "contradicted"

\* the same text of blanks only on both sides
C22_BlankSameText ==
    /\ pc = "get_support_level"
    /\ args.premise = args.hypothesis
    /\ args.premise # <<>>
    /\ Tokenize(args.hypothesis) = <<>>
    /\ ret.level = "unverifiable"

-----------------------------------------------------------------------------
(* C23 *)

\* None or the empty string
IsEmpty(v) == v = None \/ v = <<>>

\* the positions of the evidence nodes with an empty span, an empty hash or a
\* hash that is not the digest of the span
Faults(g) ==
    {k \in 1..Len(g.nodes) :
        /\ g.nodes[k].type = "evidence"
        /\ \/ IsEmpty(g.nodes[k].span)
           \/ IsEmpty(g.nodes[k].hash)
           \/ g.nodes[k].hash # _sha256_hex(g.nodes[k].span)}

\* the i-th of these positions, in node order
Fault(g, i) == CHOOSE k \in Faults(g) : Cardinality({j \in Faults(g) : j <= k}) = i

\* the entry of such a node: a missing span goes before a missing hash
FaultMessage(n) ==
    IF IsEmpty(n.span) THEN <<"evidence ", n.id, " missing span">>
    ELSE IF IsEmpty(n.hash) THEN <<"evidence ", n.id, " missing hash">>
    ELSE <<"hash mismatch for ", n.id>>

\* C23: check_source_binding returns passed = TRUE iff its problems list is
\* empty; the list has exactly one entry for each evidence node with an empty
\* span, an empty hash or a mismatching hash, in node order, a missing span
\* reported in preference to a missing hash; the other nodes add no entry.
C23_OneEntryPerFaultyEvidence ==
    pc = "check_source_binding" =>
        /\ ret.passed <=> ret.problems = <<>>
        /\ Len(ret.problems) = Cardinality(Faults(graph))
        /\ \A i \in 1..Len(ret.problems) :
               ret.problems[i] = FaultMessage(graph.nodes[Fault(graph, i)])

\* a claim with a stale hash, an evidence node without span and without hash,
\* an evidence node with a stale hash: two entries
C23_Witness ==
    /\ pc = "check_source_binding"
    /\ \E k \in 1..Len(graph.nodes) :
           /\ graph.nodes[k].type = "claim"
           /\ ~IsEmpty(graph.nodes[k].span)
           /\ graph.nodes[k].hash # _sha256_hex(graph.nodes[k].span)
    /\ Len(ret.problems) = 2
    /\ IsEmpty(graph.nodes[Fault(graph, 1)].span)
    /\ IsEmpty(graph.nodes[Fault(graph, 1)].hash)
    /\ ret.problems[1] = <<"evidence ", "e1", " missing span">>
    /\ ret.problems[2] = <<"hash mismatch for ", "e2">>
    /\ ~ret.passed

-----------------------------------------------------------------------------
(* verify called on graphs with supports edges between nodes of every kind *)
(* and with calc nodes that lack their code or their result                *)

\* a claim; e1 quotes it, e2 denies one of its words, both with their digest;
\* k1 is 2+2 with the right or a wrong result; k2 lacks its code or its
\* result; the code of k3 does not parse
VerifyNodePool == <<
    Node("c1", "claim", T_ab, None, None, NoCode, None),
    Node("e1", "evidence", None, T_ab, _sha256_hex(T_ab), NoCode, None),
    Node("e2", "evidence", None, T_no_a, _sha256_hex(T_no_a), NoCode, None),
    Node("k1", "calc", None, None, None, TwoPlusTwo, T_4),
    Node("k1", "calc", None, None, None, TwoPlusTwo, T_5),
    Node("k2", "calc", None, None, None, NoCode, T_4),
    Node("k2", "calc", None, None, None, TwoPlusTwo, None),
    Node("k3", "calc", None, None, None, [k |-> "SyntaxError"], T_4) >>

\* supports edges from evidence to claim, from claim to evidence, from calc to
\* claim, from evidence to evidence, from no node; a cites edge
VerifyEdgePool == {
    Edge("e1", "c1", "supports"),
    Edge("e2", "c1", "supports"),
    Edge("c1", "e1", "supports"),
    Edge("k1", "c1", "supports"),
    Edge("e1", "e2", "supports"),
    Edge("zz", "c1", "supports"),
    Edge("e1", "c1", "cites") }

VerifyNodeLists ==
    {Pick(VerifyNodePool, S, 1) :
        S \in {T \in SUBSET (1..Len(VerifyNodePool)) : Cardinality(T) <= MaxNodes}}

VerifyEdgeLists == UNION {[1..k -> VerifyEdgePool] : k \in 0..MaxEdges}

InitVerify ==
    /\ graph \in {EvidenceGraph(ns, es) : ns \in VerifyNodeLists, es \in VerifyEdgeLists}
    /\ raw = NoRaw
    /\ query = <<>>
    /\ docs = <<>>
    /\ args = NoArgs
    /\ pc = "start"
    /\ ret = NoRet
    /\ frame = NoFrame

NextVerify == Verify

SpecVerify == InitVerify /\ [][NextVerify]_vars

\* the i-th smallest element of the set of positions S
Nth(S, i) == CHOOSE k \in S : Cardinality({j \in S : j <= k}) = i

-----------------------------------------------------------------------------
(* C24 *)

\* the positions of the supports edges from an evidence node to a claim node
EntailedEdges(g) == {k \in 1..Len(g.edges) : EvidenceToClaim(g, g.edges[k])}

\* C24: the levels list that verify returns under entailment holds exactly
\* one support level for each supports edge from an evidence node to a claim
\* node, in edge order; entailment.passed is TRUE iff every listed level is
\* supported; the other supports edges add no level.
C24_OneLevelPerEvidenceToClaimEdge ==
    Returned("verify") =>
        LET levels == ret.details.entailment.levels IN
        /\ Len(levels) = Cardinality(EntailedEdges(graph))
        /\ \A i \in 1..Len(levels) :
               LET e == graph.edges[Nth(EntailedEdges(graph), i)] IN
               levels[i] = GetSupportLevel(OrEmpty(get_node(graph, e.source).span),
                                           OrEmpty(get_node(graph, e.target).text))
        /\ ret.details.entailment.passed
               <=> \A i \in 1..Len(levels) : levels[i] = "supported"

\* a supports edge between two nodes that are not evidence and claim, before
\* a supports edge from an evidence node to the claim it contradicts
C24_Witness ==
    /\ Returned("verify")
    /\ Len(graph.edges) = 2
    /\ graph.edges[1].type = "supports"
    /\ graph.edges[1].source \in NodeIds(graph)
    /\ graph.edges[1].target \in NodeIds(graph)
    /\ ~EvidenceToClaim(graph, graph.edges[1])
    /\ EvidenceToClaim(graph, graph.edges[2])
    /\ ret.details.entailment.levels = <<"contradicted">>
    /\ ~ret.details.entailment.passed

\* supports edges, none from an evidence node to a claim node: no level
C24_NoLevelWitness ==
    /\ Returned("verify")
    /\ Len(graph.edges) = 2
    /\ \A k \in 1..2 : graph.edges[k].type = "supports"
                       /\ graph.edges[k].source \in NodeIds(graph)
                       /\ graph.edges[k].target \in NodeIds(graph)
    /\ ret.details.entailment.levels = <<>>
    /\ ret.details.entailment.passed

-----------------------------------------------------------------------------
(* C25 *)

\* the positions of the calc nodes that carry both a code and a result
CheckedCalcs(g) ==
    {k \in 1..Len(g.nodes) :
        g.nodes[k].type = "calc" /\ g.nodes[k].code # NoCode /\ g.nodes[k].result # None}

\* those whose check is false
FailedCalcs(g) ==
    {k \in CheckedCalcs(g) : ~check_numeric_calc(g.nodes[k].code, g.nodes[k].result)}

\* C25: verify runs the numeric check on every calc node that carries both a
\* code and a result: numeric.problems lists exactly the ids of those nodes
\* whose check is false, in node order; numeric.passed is TRUE iff that list
\* is empty; calc nodes without code or without result are skipped.
C25_NumericProblemsAreFailedChecks ==
    Returned("verify") =>
        LET problems == ret.details.numeric.problems IN
        /\ Len(problems) = Cardinality(FailedCalcs(graph))
        /\ \A i \in 1..Len(problems) :
               problems[i] = graph.nodes[Nth(FailedCalcs(graph), i)].id
        /\ ret.details.numeric.passed <=> problems = <<>>

\* a calc node whose check holds, one without code or result, one whose check
\* fails
C25_Witness ==
    /\ Returned("verify")
    /\ Len(graph.nodes) = 3
    /\ \A k \in 1..3 : graph.nodes[k].type = "calc"
    /\ Cardinality(CheckedCalcs(graph)) = 2
    /\ Cardinality(FailedCalcs(graph)) = 1
    /\ Len(ret.details.numeric.problems) = 1
    /\ ~ret.details.numeric.passed

\* only calc nodes without code or without result: the check passes
C25_SkippedWitness ==
    /\ Returned("verify")
    /\ \E k \in 1..Len(graph.nodes) : graph.nodes[k].type = "calc"
    /\ CheckedCalcs(graph) = {}
    /\ ret.details.numeric.problems = <<>>
    /\ ret.details.numeric.passed

-----------------------------------------------------------------------------
(* C26 *)

\* C26: when no document reaches plan_proof, the graph it builds holds the
\* claim node alone and no edge, and verification of that graph fails:
\* answer_and_proof returns valid = FALSE.
C26_NoDocumentsFailsVerification ==
    (pc = "answer_and_proof" /\ docs = <<>>)
        => /\ Len(graph.nodes) = 1
           /\ graph.nodes[1].type = "claim"
           /\ graph.edges = <<>>
           /\ ~ret.raised
           /\ ~ret.valid

\* no document: the planned graph is the claim c1 with the answer "I don't
\* know." and verification has failed on minimality alone
C26_Witness ==
    /\ pc = "answer_and_proof"
    /\ docs = <<>>
    /\ graph = EvidenceGraph(<<Node("c1", "claim", DontKnow, None, None, NoCode, None)>>, <<>>)
    /\ ret.details.hash.passed
    /\ ret.details.entailment.passed
    /\ ret.details.numeric.passed
    /\ ~ret.details.minimality.passed
    /\ ~ret.valid

-----------------------------------------------------------------------------
(* C29 *)

\* C29: for every raw record that compiles, compile_graph applied to
\* compile_graph(raw).to_dict() succeeds and yields a graph with the same node
\* sequence and the same edge sequence.
C29_CompileRoundTrip ==
    pc = "recompiled"
        => /\ ~ret.raised
           /\ ret.graph.nodes = graph.nodes
           /\ ret.graph.edges = graph.edges

\* two nodes that the first compilation has put in order and given their
\* absent fields, one with a hash, and two edges
C29_Witness ==
    /\ pc = "recompiled"
    /\ ~ret.raised
    /\ Len(graph.nodes) >= 2
    /\ Len(graph.edges) = 2
    /\ \E k \in 1..Len(graph.nodes) : graph.nodes[k].hash # None
    /\ raw = to_dict(graph)
    /\ ret.graph = graph

-----------------------------------------------------------------------------
(* C27 *)

\* C27: whenever verify returns valid = TRUE on a graph, validate_connectivity
\* holds on that graph: every final claim is reachable from an evidence, calc
\* or entailment node.
C27_ValidImpliesConnected ==
    (Returned("verify") /\ ret.valid)
        => LET v == validate_connectivity(graph) IN ~v.raised /\ v.value

-----------------------------------------------------------------------------
(* C28 *)

\* every supports edge of g has existing endpoints and, from an evidence node
\* to a claim node, is supported
SupportsSound(g) ==
    \A k \in 1..Len(g.edges) :
        g.edges[k].type = "supports" =>
            /\ g.edges[k].source \in NodeIds(g)
            /\ g.edges[k].target \in NodeIds(g)
            /\ EvidenceToClaim(g, g.edges[k]) => SupportedEdge(g, g.edges[k])

\* how many times d occurs in the sequence s
Occurrences(s, d) == Cardinality({i \in 1..Len(s) : s[i] = d})

-----------------------------------------------------------------------------
(* reachable_from_evidence, one turn of its while loop at a time, on graphs *)
(* with cycles and self-loops                                               *)

\* two claims, an evidence node given twice, a calc node
TraverseNodePool == <<
    Node("c1", "claim", T_ab, None, None, NoCode, None),
    Node("c2", "claim", T_ab, None, None, NoCode, None),
    Node("e1", "evidence", None, T_ab, _sha256_hex(T_ab), NoCode, None),
    Node("e1", "evidence", None, T_B, _sha256_hex(T_B), NoCode, None),
    Node("k1", "calc", None, None, None, TwoPlusTwo, T_4) >>

\* e1 -> c1 -> e1 and c1 -> c2 -> c1 are cycles; c1 -> c1 and e1 -> e1 are
\* self-loops; a refutes edge; an edge to the id of no node
TraverseEdgePool == {
    Edge("e1", "c1", "supports"),
    Edge("c1", "e1", "derives"),
    Edge("c1", "c1", "derives"),
    Edge("e1", "e1", "cites"),
    Edge("c1", "c2", "derives"),
    Edge("c2", "c1", "supports"),
    Edge("e1", "c1", "refutes"),
    Edge("e1", "zz", "cites") }

TraverseNodeLists ==
    {Pick(TraverseNodePool, S, 1) :
        S \in {T \in SUBSET (1..Len(TraverseNodePool)) : Cardinality(T) <= MaxNodes}}

TraverseEdgeLists == UNION {[1..k -> TraverseEdgePool] : k \in 0..MaxEdges}

InitTraverse ==
    /\ graph \in {EvidenceGraph(ns, es) : ns \in TraverseNodeLists, es \in TraverseEdgeLists}
    /\ raw = NoRaw
    /\ query = <<>>
    /\ docs = <<>>
    /\ args = NoArgs
    /\ pc = "start"
    /\ ret = NoRet
    /\ frame = NoFrame

\* the stack is a list of ids pushed at the seeding and, after it, by the
\* inner loop; StackCap(g) is more than any stack of the code on g holds
\* (StackBounded), and keeps the stacks of a faulty traversal finite
StackCap(g) == 2 * Len(g.nodes) + 1

\* reachable = {...}; stack = [...]; for nid in stack: reachable[nid] = True.
\* frame.pushed counts, up to 2, the pushes of each id after the seeding.
BeginTraversal ==
    /\ pc = "start"
    /\ pc' = "while stack"
    /\ LET seeds == SelectSeq(graph.nodes, LAMBDA n : n.type \in SeedTypes)
           stack == [i \in 1..Len(seeds) |-> seeds[i].id]
       IN  frame' = [reachable |-> [id \in NodeIds(graph) |-> id \in SeqToSet(stack)],
                     stack |-> stack,
                     pushed |-> [id \in NodeIds(graph) |-> 0]]
    /\ UNCHANGED <<graph, raw, query, docs, args, ret>>

\* `while stack:` with a stack that is not empty: one pop and the inner loop
TraversalTurn ==
    /\ pc = "while stack"
    /\ frame.stack # <<>>
    /\ Len(frame.stack) <= StackCap(graph)
    /\ LET rest == SubSeq(frame.stack, 1, Len(frame.stack) - 1)
           r == TraverseTurn(graph, frame.reachable, frame.stack)
           new == SubSeq(r.stack, Len(rest) + 1, Len(r.stack))
       IN  IF r.raised
           THEN /\ pc' = "reachable_from_evidence"
                /\ ret' = [raised |-> TRUE, reachable |-> r.reachable]
                /\ frame' = NoFrame
           ELSE /\ pc' = pc
                /\ ret' = ret
                /\ frame' = [reachable |-> r.reachable,
                             stack |-> r.stack,
                             pushed |-> [id \in NodeIds(graph) |->
                                 Min(2, frame.pushed[id]
                                        + Cardinality({i \in 1..Len(new) : new[i] = id}))]]
    /\ UNCHANGED <<graph, raw, query, docs, args>>

\* `while stack:` with an empty stack: return reachable
EndTraversal ==
    /\ pc = "while stack"
    /\ frame.stack = <<>>
    /\ pc' = "reachable_from_evidence"
    /\ ret' = [raised |-> FALSE, reachable |-> frame.reachable]
    /\ frame' = NoFrame
    /\ UNCHANGED <<graph, raw, query, docs, args>>

NextTraverse == BeginTraversal \/ TraversalTurn \/ EndTraversal

\* the call runs on: a step that can be taken is taken
SpecTraverse == InitTraverse /\ [][NextTraverse]_vars /\ WF_vars(NextTraverse)

-----------------------------------------------------------------------------
(* C30 *)

\* the ids of the seed nodes of g
SeedIds(g) == {g.nodes[k].id : k \in {j \in 1..Len(g.nodes) : g.nodes[j].type \in SeedTypes}}

\* after the seeding an id is pushed at most once, a seed id never, and only
\* ids marked reachable are on the stack
PushedAtMostOnce ==
    pc = "while stack" =>
        /\ \A id \in NodeIds(graph) :
               /\ frame.pushed[id] <= 1
               /\ id \in SeedIds(graph) => frame.pushed[id] = 0
        /\ \A i \in 1..Len(frame.stack) : frame.reachable[frame.stack[i]]

\* the stack never holds more ids than the graph has nodes
StackBounded == pc = "while stack" => Len(frame.stack) <= Len(graph.nodes)

\* C30: on every graph whose edges all have existing endpoints, cycles and
\* self-loops included, reachable_from_evidence returns: after the seeding an
\* id is pushed only when it is first marked reachable, so at most once, and
\* the stack empties.
C30_TraversalTerminates ==
    /\ [](NoDanglingEdge(graph) => (PushedAtMostOnce /\ StackBounded))
    /\ (pc = "start" /\ NoDanglingEdge(graph))
           ~> (pc = "reachable_from_evidence" /\ ~ret.raised)

\* returned on a graph with the cycle e1 -> c1 -> e1, both nodes marked
C30_Witness ==
    /\ pc = "reachable_from_evidence"
    /\ ~ret.raised
    /\ NoDanglingEdge(graph)
    /\ Len(graph.edges) = 2
    /\ graph.edges[1].source # graph.edges[1].target
    /\ graph.edges[1].target = graph.edges[2].source
    /\ graph.edges[2].target = graph.edges[1].source
    /\ \A k \in 1..2 : graph.edges[k].type \in {"supports", "derives", "cites", "uses-tool"}
    /\ ret.reachable[graph.edges[1].source]
    /\ ret.reachable[graph.edges[1].target]

\* returned on a graph with a self-loop on a node that was marked
C30_SelfLoopWitness ==
    /\ pc = "reachable_from_evidence"
    /\ ~ret.raised
    /\ \E k \in 1..Len(graph.edges) :
           /\ graph.edges[k].source = graph.edges[k].target
           /\ graph.edges[k].type \in {"supports", "derives", "cites", "uses-tool"}
           /\ graph.edges[k].source \in NodeIds(graph)
           /\ ret.reachable[graph.edges[k].source]

\* what the turns return is what reachable_from_evidence, taken as a whole,
\* returns
C30_TurnsAgree ==
    pc = "reachable_from_evidence" => ret = reachable_from_evidence(graph)

=============================================================================
